---- MODULE Spec2Model ----
(***************************************************************************)
(* A model of the tick-to-order pipeline of HFT_Rust: the fixed-depth L2   *)
(* order book and its message parser, the WebSocket framer, and the        *)
(* quoting strategy (MarketMaker).                                         *)
(*                                                                         *)
(* Numbers.  The program computes in f64.  The model computes in integers: *)
(*   - a book price is a whole number of price units, a unit being no      *)
(*     smaller than f64::EPSILON, so that `|a - b| < EPSILON` is decided   *)
(*     on whole units; prices and quantities are finite (no inf, no NaN);  *)
(*   - strategy prices are in units of 0.0005 (so that the mid of two     *)
(*     prices with three decimals is a whole number), strategy quantities  *)
(*     in units of 0.1, time in milliseconds, the tick-interval EMA in     *)
(*     units of 0.1 microsecond; ratios are kept as fractions and compared *)
(*     exactly, where the code's floating point rounds in the last place.  *)
(***************************************************************************)
EXTENDS Integers, Sequences, FiniteSets, TLC

VARIABLES
    book,       \* L2OrderBook: [bids, asks], each Level[20]
    full,       \* reference: every level the full-depth feed has set, per side
    parse_ret,  \* what the last parse_and_update returned
    wire,       \* framer: the bytes of the buffer handed to decode_frame
    enc,        \* framer: the last encode_text_frame call (payload, return, dst)
    dec,        \* framer: what decode_frame returned for `wire`
    mm,         \* the MarketMaker
    now,        \* the clock (Instant::now(), SystemTime::now()), in ms
    call,       \* the last call made on the MarketMaker, with what it returned
    ring,       \* the number of unread LogMessages in the SPSC ring
    hot_pc,     \* hot thread: "handle" a frame, or at a `producer.push` call
    pushed,     \* what the last `producer.push` found and returned
    state,      \* ConnectionState of the market-data session (BYBIT_TOKEN)
    priv_state, \* ConnectionState of the account session (BYBIT_PRIVATE_TOKEN)
    trade_state,            \* ConnectionState of the order-entry session
    priv_authenticated,
    trade_authenticated,
    time_offset,            \* Dynamic Time Sync: ServerTime - LocalTime, ms
    offset_initialized,
    trade_out,  \* the JSON texts built for the order-entry session, in order
    handled,    \* the last venue reply handled, with the state it found
    net,        \* market-data session: the venue's bytes not yet read
    inbound_buf,            \* buf[0 .. offset] of the market-data session
    delivered,  \* the payloads handed to the parser, in order
    framed,     \* the frames the venue has sent, in order
    skipped,    \* the bytes read in a phase that keeps none of them
    api_key,    \* BYBIT_API_KEY: its length in bytes
    tx,         \* per session, the WebSocket frames enqueued with write_plaintext
    auth_replies            \* successful auth replies handled on the account session

bookVars == <<book, full, parse_ret>>
frameVars == <<wire, enc, dec>>
stratVars == <<mm, now, call>>
ringVars == <<ring, hot_pc, pushed>>
sessVars == <<state, priv_state, trade_state, priv_authenticated, trade_authenticated>>
syncVars == <<time_offset, offset_initialized>>
mainVars == <<sessVars, syncVars, trade_out, handled>>
rxVars == <<net, inbound_buf, delivered, framed, skipped>>
txVars == <<api_key, tx, auth_replies>>
ioVars == <<rxVars, txVars>>
loopVars == <<ringVars, mainVars, ioVars>>
vars == <<book, full, parse_ret, wire, enc, dec, mm, now, call, loopVars>>

Abs(x) == IF x < 0 THEN -x ELSE x

(***************************************************************************)
(* core/orderbook.rs                                                       *)
(***************************************************************************)

\* Number of levels per side ([Level; 20]).
Depth == 20

\* f64::EPSILON in price units.
EPSILON == 1

Slots == 0 .. (Depth - 1)

\* Level::default()
EmptyLevel == [price |-> 0, qty |-> 0]

\* L2OrderBook::default()
EmptyBook ==
    [bids |-> [i \in Slots |-> EmptyLevel], asks |-> [i \in Slots |-> EmptyLevel]]

\* `match side { Buy => &mut self.bids, Sell => &mut self.asks }`
SideLevels(b, side) == IF side = "Buy" THEN b.bids ELSE b.asks

WithSide(b, side, levels) ==
    IF side = "Buy" THEN [b EXCEPT !.bids = levels] ELSE [b EXCEPT !.asks = levels]

\* Step 1's scan: the first slot whose price is within EPSILON of `price`,
\* Depth when there is none.
FindLevel(levels, price) ==
    LET hits == {i \in Slots : Abs(levels[i].price - price) < EPSILON}
    IN  IF hits = {} THEN Depth ELSE CHOOSE i \in hits : \A j \in hits : i <= j

\* RemoveAt without `levels[19] = Level::default()`: the last slot keeps its
\* level.
RemoveAt_LastKept(levels, i) ==
    [j \in Slots |->
        IF j < i THEN levels[j]
        ELSE IF j < Depth - 1 THEN levels[j + 1]
        ELSE levels[j]]

\* Remove: `for j in i..19 { levels[j] = levels[j+1] }; levels[19] = default`.
RemoveAt(levels, i) ==
    [j \in Slots |->
        IF j < i THEN levels[j]
        ELSE IF j < Depth - 1 THEN levels[j + 1]
        ELSE EmptyLevel]

\* Shift right from i and store: `for j in (i+1..20).rev() { levels[j] =
\* levels[j-1] }; levels[i] = Level { price, qty }`.  The last level falls off.
InsertAt(levels, i, price, qty) ==
    [j \in Slots |->
        IF j < i THEN levels[j]
        ELSE IF j = i THEN [price |-> price, qty |-> qty]
        ELSE levels[j - 1]]

\* InsertHere with the asks' comparison on both sides.
InsertHere_BothAscending(side, lvl, price) ==
    \/ lvl.price = 0
    \/ price < lvl.price

\* The insertion scan's test: an empty slot, or a better price
\* (bids descending: higher; asks ascending: lower).
InsertHere(side, lvl, price) ==
    \/ lvl.price = 0
    \/ IF side = "Buy" THEN price > lvl.price ELSE price < lvl.price

\* Step 2's scan: the first slot where the new level goes, Depth when the
\* loop ends without inserting.
InsertPoint(levels, side, price) ==
    LET hits == {i \in Slots : InsertHere(side, levels[i], price)}
    IN  IF hits = {} THEN Depth ELSE CHOOSE i \in hits : \A j \in hits : i <= j

\* L2OrderBook::update on one side's array.
UpdateLevels(levels, side, price, qty) ==
    LET i == FindLevel(levels, price)
    IN  IF i < Depth
        THEN IF qty = 0
             THEN RemoveAt(levels, i)
             ELSE [levels EXCEPT ![i].qty = qty]
        ELSE IF qty = 0
             THEN levels
             ELSE LET k == InsertPoint(levels, side, price)
                  IN  IF k < Depth THEN InsertAt(levels, k, price, qty) ELSE levels

\* L2OrderBook::update(&mut self, side, price, qty)
update(b, side, price, qty) ==
    WithSide(b, side, UpdateLevels(SideLevels(b, side), side, price, qty))

(***************************************************************************)
(* core/parser.rs                                                          *)
(***************************************************************************)

\* A JSON string as the parser reads a number from it: a decimal number, or
\* text that does not parse.
Num(v) == [num |-> TRUE, v |-> v]
NotANumber == [num |-> FALSE, v |-> 0]

\* `as_str().unwrap_or("0").parse::<f64>().unwrap_or(0.0)`
ParseF64(tok) == IF tok.num THEN tok.v ELSE 0

\* One `for item in arr` loop: entries of fewer than two elements are
\* skipped, the others parsed and applied when the price is positive.
RECURSIVE ApplyEntries(_, _, _)
ApplyEntries(b, side, entries) ==
    IF entries = <<>> THEN b
    ELSE LET item == Head(entries)
             p == ParseF64(item[1])
             q == ParseF64(item[2])
             nb == IF Len(item) >= 2 /\ p > 0 THEN update(b, side, p, q) ELSE b
         IN  \* (the test has TLC evaluate nb before the next entry)
             IF nb = nb THEN ApplyEntries(nb, side, Tail(entries)) ELSE b

\* `tape.get("ts").and_then(|v| v.as_u64()).unwrap_or(0)`; NoTs: the field
\* is absent or not an unsigned integer.
NoTs == -1
ExtractTs(msg) == IF msg.ts = NoTs THEN 0 ELSE msg.ts

\* parse_and_update(data, book): the book after the call and the Result.
\* msg.json is whether the bytes are a JSON value (to_borrowed_value's `?`).
parse_and_update(msg, b) ==
    IF ~msg.json
    THEN [book |-> b, ret |-> [ok |-> FALSE, ts |-> 0]]
    ELSE [book |-> ApplyEntries(ApplyEntries(b, "Buy", msg.b), "Sell", msg.a),
          ret  |-> [ok |-> TRUE, ts |-> ExtractTs(msg)]]

\* A price -> qty map under the same update call: the level is replaced, or
\* removed when qty is 0, at whatever depth it lies.
FullUpdate(f, side, price, qty) ==
    LET kept == {l \in f[side] : ~(Abs(l.price - price) < EPSILON)}
    IN  [f EXCEPT ![side] = IF qty = 0 THEN kept
                            ELSE kept \cup {[price |-> price, qty |-> qty]}]

\* The update calls of one `for item in arr` loop, on the map.
RECURSIVE FullEntries(_, _, _)
FullEntries(f, side, entries) ==
    IF entries = <<>> THEN f
    ELSE LET item == Head(entries)
             p == ParseF64(item[1])
             q == ParseF64(item[2])
         IN  FullEntries(IF Len(item) >= 2 /\ p > 0 THEN FullUpdate(f, side, p, q) ELSE f,
                         side, Tail(entries))

\* The update calls of one parse_and_update, on the map.
FullParse(msg, f) ==
    IF ~msg.json THEN f
    ELSE FullEntries(FullEntries(f, "Buy", msg.b), "Sell", msg.a)

\* The best Depth levels of one side of the map, laid out as the book's
\* array: bids from the highest price, asks from the lowest.
BestLevels(f, side) ==
    LET better(l) == {m \in f[side] : IF side = "Buy" THEN m.price > l.price
                                      ELSE m.price < l.price}
    IN  [i \in Slots |->
            IF \E l \in f[side] : Cardinality(better(l)) = i
            THEN CHOOSE l \in f[side] : Cardinality(better(l)) = i
            ELSE EmptyLevel]

(***************************************************************************)
(* net/framing.rs                                                          *)
(***************************************************************************)

\* buf[i] with the source's indices from 0; a byte is 0 .. 255.
At(buf, i) == buf[i + 1]

\* a ^ b on bytes.
RECURSIVE Xor(_, _)
Xor(a, b) ==
    IF a = 0 THEN b
    ELSE IF b = 0 THEN a
    ELSE ((a + b) % 2) + 2 * Xor(a \div 2, b \div 2)

\* A usize of 64 bits, kept in three limbs (a: the top 16 bits, b and c: 24
\* bits each) so that no intermediate value leaves the checker's integers.
Limb == 2 ^ 24
TopLimb == 2 ^ 16
U64Of(n) == [a |-> 0, b |-> 0, c |-> n]

\* u64::from_be_bytes of eight bytes.
U64FromBe(bs) ==
    [a |-> bs[1] * 256 + bs[2],
     b |-> bs[3] * 65536 + bs[4] * 256 + bs[5],
     c |-> bs[6] * 65536 + bs[7] * 256 + bs[8]]

\* x + n for a small n, wrapping at 2^64 as a release build's `+` does
\* (a debug build panics where `wrapped` is true).
U64Add(x, n) ==
    LET c == x.c + n
        b == x.b + (c \div Limb)
        a == x.a + (b \div Limb)
    IN  [a |-> a % TopLimb, b |-> b % Limb, c |-> c % Limb, wrapped |-> a >= TopLimb]

\* n < x, for a small n.
U64Above(x, n) == x.a > 0 \/ x.b > 0 \/ x.c > n

DecNone == [tag |-> "None", consumed |-> 0, payload |-> <<>>]
DecErr == [tag |-> "Err", consumed |-> 0, payload |-> <<>>]
DecPanic == [tag |-> "Panic", consumed |-> 0, payload |-> <<>>]
DecSome(n, pl) == [tag |-> "Some", consumed |-> n, payload |-> pl]

\* decode_frame from `let total_len = header_len + payload_len` on.  With
\* total_len wrapped the buffer is not short, and split_at_mut(payload_len)
\* panics (mid > len); a debug build panics at the addition already.
SplitFrame(buf, header_len, payload_len) ==
    LET total_len == U64Add(payload_len, header_len)
    IN  IF U64Above(total_len, Len(buf))
        THEN DecNone
        ELSE IF total_len.wrapped \/ U64Above(payload_len, Len(buf) - header_len)
        THEN DecPanic
        ELSE DecSome(total_len.c, SubSeq(buf, header_len + 1, total_len.c))

\* decode_frame(buf)
decode_frame(buf) ==
    IF Len(buf) < 2 THEN DecNone
    ELSE LET second_byte == At(buf, 1)
             masked == second_byte >= 128        \* (second_byte & 0x80) != 0
             payload_len == second_byte % 128    \* second_byte & 0x7F
         IN  IF masked THEN DecErr
             ELSE IF payload_len = 126
             THEN IF Len(buf) < 4 THEN DecNone
                  ELSE SplitFrame(buf, 4, U64Of(At(buf, 2) * 256 + At(buf, 3)))
             ELSE IF payload_len = 127
             THEN IF Len(buf) < 10 THEN DecNone
                  ELSE SplitFrame(buf, 10, U64FromBe(SubSeq(buf, 3, 10)))
             ELSE SplitFrame(buf, 2, U64Of(payload_len))

\* `let mask_key = [1u8, 2, 3, 4]`
mask_key == <<1, 2, 3, 4>>

\* MaskedPayload with the key's first byte on every payload byte.
MaskedPayload_KeyFixed(src_payload) ==
    [k \in 1 .. Len(src_payload) |-> Xor(src_payload[k], At(mask_key, 0))]

\* `dst_buf[offset + i] = byte ^ mask_key[i % 4]`
MaskedPayload(src_payload) ==
    [k \in 1 .. Len(src_payload) |-> Xor(src_payload[k], At(mask_key, (k - 1) % 4))]

\* encode_text_frame with a cleared mask bit in byte 1.
encode_text_frame_NoMaskBit(src_payload) ==
    IF Len(src_payload) < 126
    THEN [n |-> Len(src_payload) + 6,
          dst |-> <<129, Len(src_payload)>> \o mask_key \o MaskedPayload(src_payload)]
    ELSE [n |-> 0, dst |-> <<129>>]

\* encode_text_frame(src_payload, dst_buf): the return value and the bytes
\* written to dst_buf from offset 0.
encode_text_frame(src_payload) ==
    IF Len(src_payload) < 126
    THEN [n |-> Len(src_payload) + 6,
          dst |-> <<129, 128 + Len(src_payload)>> \o mask_key \o MaskedPayload(src_payload)]
    ELSE [n |-> 0, dst |-> <<129>>]

(***************************************************************************)
(* strategy/market_maker.rs                                                *)
(***************************************************************************)

\* A price with three decimals, given in thousandths, in strategy units.
Px(milli) == 2 * milli

\* Option<Instant>
NoInstant == <<>>
SomeInstant(t) == <<t>>

\* on_tick's `None`; Some(actions) is the non-empty sequence of actions.
None == <<>>

\* enum ActionType
CancelAll == [action_type |-> "CancelAll"]
ClosePosition(qty, side) ==
    [action_type |-> "ClosePosition", qty |-> qty, side |-> side]
CreateOrder(price, qty, side, link_id) ==
    [action_type |-> "CreateOrder", price |-> price, qty |-> qty,
     side |-> side, link_id |-> link_id]
AmendOrder(price, qty, side, link_id) ==
    [action_type |-> "AmendOrder", price |-> price, qty |-> qty,
     side |-> side, link_id |-> link_id]

\* format!("b-{}", millis) / format!("s-{}", millis)
LinkId(prefix, millis) == <<prefix, millis>>

\* |x| > 0.0001 and |x| < 0.0001 for a quantity x (units of 0.1).
QtyAboveEps(x) == Abs(x) * 1000 > 1
QtyBelowEps(x) == Abs(x) * 1000 < 1

\* |d| > 0.0001 for a price difference d (units of 0.0005).
PriceDiffAboveEps(d) == Abs(d) * 5 > 1

\* MarketMaker::new, called at time t.
new(t) ==
    [ target_spread |-> [num |-> 1, den |-> 100],
      tick_counter |-> 0,
      binance_bid |-> 0,
      binance_ask |-> 0,
      last_update_ts |-> t,
      has_active_buy |-> FALSE,
      has_active_sell |-> FALSE,
      active_buy_link_id |-> LinkId("b", t),
      active_sell_link_id |-> LinkId("s", t),
      position |-> 0,
      entry_price |-> 0,
      last_trade_ts |-> NoInstant,
      active_buy_price |-> 0,
      active_sell_price |-> 0,
      last_update_mid |-> 0,
      last_tick_arrival_ts |-> t,
      tick_interval_ema |-> 10000000,
      last_exch_ts |-> 0 ]

update_binance_price(self, bid, ask) ==
    [self EXCEPT !.binance_bid = bid, !.binance_ask = ask]

\* MarketMaker::on_fill at time t.  The entry price of a position that grows
\* is total_val / new_qty.
on_fill(self, side, qty, px, t) ==
    LET is_long == self.position > 0
        is_buy == side = "Buy"
        total_val == (Abs(self.position) * self.entry_price) + (qty * px)
        new_qty == Abs(self.position) + qty
        entry == IF self.position = 0 THEN px
                 ELSE IF (is_long /\ is_buy) \/ (~is_long /\ ~is_buy)
                      THEN total_val \div new_qty
                      ELSE self.entry_price
        position == IF side = "Buy" THEN self.position + qty
                    ELSE self.position - qty
    IN  [self EXCEPT !.position = position,
                     !.entry_price = IF QtyBelowEps(position) THEN 0 ELSE entry,
                     !.last_trade_ts = SomeInstant(t)]

on_order_cancel(self, side) ==
    IF side = "Buy"
    THEN [self EXCEPT !.has_active_buy = FALSE, !.active_buy_price = 0]
    ELSE IF side = "Sell"
         THEN [self EXCEPT !.has_active_sell = FALSE, !.active_sell_price = 0]
         ELSE self

\* MarketMaker::sync_position at time t.
sync_position(self, user_position, avg_price, t) ==
    IF QtyAboveEps(self.position - user_position)
    THEN LET started == QtyAboveEps(user_position) /\ self.last_trade_ts = NoInstant
             closed == QtyBelowEps(user_position)
         IN  [self EXCEPT
                 !.position = user_position,
                 !.entry_price = IF closed THEN 0 ELSE avg_price,
                 !.last_trade_ts = IF closed THEN NoInstant
                                   ELSE IF started THEN SomeInstant(t)
                                   ELSE @]
    ELSE self

\* MarketMaker::reset_order at wall-clock time t (ms): ts / 1000 of the
\* microsecond timestamp.
reset_order(self, side, t) ==
    IF side = "Buy"
    THEN [self EXCEPT !.has_active_buy = FALSE, !.active_buy_price = 0,
                      !.active_buy_link_id = LinkId("b", t)]
    ELSE IF side = "Sell"
         THEN [self EXCEPT !.has_active_sell = FALSE, !.active_sell_price = 0,
                           !.active_sell_link_id = LinkId("s", t)]
         ELSE self

\* A ratio num / den of two whole numbers.
Frac(n, d) == [num |-> n, den |-> d]

\* x < y for ratios x, y >= 0 with positive denominators, decided on the
\* whole parts and then on the remainders, with no product formed.
RECURSIVE FracLess(_, _)
FracLess(x, y) ==
    LET qx == x.num \div x.den
        qy == y.num \div y.den
        rx == x.num % x.den
        ry == y.num % y.den
    IN  IF qx # qy THEN qx < qy
        ELSE IF ry = 0 THEN FALSE
        ELSE IF rx = 0 THEN TRUE
        ELSE FracLess(Frac(y.den, ry), Frac(x.den, rx))

\* f64::max
FracMax(x, y) == IF FracLess(x, y) THEN y ELSE x

\* a * b = q * c + r with 0 <= r < c, by halving b.
RECURSIVE MulDiv(_, _, _)
MulDiv(a, b, c) ==
    IF b = 0 THEN [q |-> 0, r |-> 0]
    ELSE LET h == MulDiv(a, b \div 2, c)
             t == 2 * h.r + (IF b % 2 = 1 THEN a % c ELSE 0)
             w == IF b % 2 = 1 THEN a \div c ELSE 0
         IN  [q |-> 2 * h.q + w + (t \div c), r |-> t % c]

\* 0.01 in price units: the cent targets are rounded to, and `tick_size`.
tick_size == Px(10)

\* `(price * (1.0 - spread) * 100.0).round() / 100.0`: the nearest cent,
\* halves away from zero.
RoundedBelow_ToThousandths(price, spread) ==
    LET cut == MulDiv(price, spread.num, spread.den)
        half == IF cut.r = 0 THEN 1 ELSE 0
    IN  2 * ((price - cut.q + half) \div 2)
RoundedBelow(price, spread) ==
    LET cut == MulDiv(price, spread.num, spread.den)
        half == IF cut.r = 0 THEN tick_size \div 2 ELSE (tick_size \div 2) - 1
    IN  tick_size * ((price - cut.q + half) \div tick_size)

\* `(price * (1.0 + spread) * 100.0).round() / 100.0`
RoundedAbove(price, spread) ==
    LET add == MulDiv(price, spread.num, spread.den)
    IN  tick_size * ((price + add.q + (tick_size \div 2)) \div tick_size)

\* `exch_ts > 0 && exch_ts == self.last_exch_ts`
IsBatchDuplicate_Never(self, exch_ts) == FALSE
IsBatchDuplicate(self, exch_ts) == exch_ts > 0 /\ exch_ts = self.last_exch_ts

\* unrealized_pnl, as the quotient the code forms (entry_price may be 0).
unrealized_pnl(self, current_bid, current_ask) ==
    IF self.position > 0
    THEN Frac(current_bid - self.entry_price, self.entry_price)
    ELSE Frac(self.entry_price - current_ask, self.entry_price)

\* `x <= 0.0` for the f64 quotient x = num / den with den >= 0: a division
\* by zero gives -inf, +inf or NaN, and only -inf is <= 0.
QuotientNonPositive(x) == IF x.den > 0 THEN x.num <= 0 ELSE x.num < 0

\* A. `ts.elapsed() > Duration::from_secs(3)` when not in profit.
time_limit(self, pnl, t) ==
    /\ QuotientNonPositive(pnl)
    /\ self.last_trade_ts # NoInstant
    /\ t - self.last_trade_ts[1] > 3000

\* B. `current_bid > entry_price * 1.003` / `current_ask < entry_price * 0.997`
take_profit_AtThreshold(self, current_bid, current_ask) ==
    IF self.position > 0
    THEN 1000 * current_bid >= 1003 * self.entry_price
    ELSE 1000 * current_ask <= 997 * self.entry_price
take_profit(self, current_bid, current_ask) ==
    IF self.position > 0
    THEN 1000 * current_bid > 1003 * self.entry_price
    ELSE 1000 * current_ask < 997 * self.entry_price

\* The actions pushed when close_signal is set.
ClosePair_KeepOrders(self) ==
    <<ClosePosition(Abs(self.position), IF self.position > 0 THEN "Sell" ELSE "Buy")>>
ClosePair(self) ==
    <<CancelAll,
      ClosePosition(Abs(self.position), IF self.position > 0 THEN "Sell" ELSE "Buy")>>

\* on_tick, step 0 (|position| > 0.0001): close or hold.
HoldOrClose(self, b, t) ==
    LET current_bid == b.bids[0].price
        current_ask == b.asks[0].price
        pnl == unrealized_pnl(self, current_bid, current_ask)
        close_signal == time_limit(self, pnl, t)
                            \/ take_profit(self, current_bid, current_ask)
    IN  IF close_signal
        THEN [self |-> [self EXCEPT !.has_active_buy = FALSE,
                                    !.has_active_sell = FALSE],
              ret |-> ClosePair(self)]
        ELSE [self |-> self, ret |-> None]

\* `self.tick_interval_ema = 0.3 * delta_us + 0.7 * self.tick_interval_ema`
\* for a tick delta_ms after the previous one (EMA in 0.1 us, so delta_us is
\* 10000 * delta_ms units); whole for the first seven ticks, then truncated.
NextEma(ema, delta_ms) == 3000 * delta_ms + ((7 * ema) \div 10)

\* tps = 1_000_000 / ema.max(1.0); spread_ratio = ((tps - 20) / 80) clamped
\* to [0, 1]; tps_spread = 0.004 + spread_ratio * 0.006.  In EMA units tps is
\* 10^7 / ema, and between the clamps the sum is (ema + 3*10^5) / (400 ema).
TpsSpread(ema) ==
    LET e == IF ema < 10 THEN 10 ELSE ema
    IN  IF 20 * e >= 10000000 THEN Frac(4, 1000)
        ELSE IF 100 * e <= 10000000 THEN Frac(10, 1000)
        ELSE Frac(e + 300000, 400 * e)

\* change_pct: |mid_price - last_update_mid| / last_update_mid, or 0.
ChangePct(self, mid_price) ==
    IF self.last_update_mid > 0
    THEN Frac(Abs(mid_price - self.last_update_mid), self.last_update_mid)
    ELSE Frac(0, 1)

\* `change_pct > 0.004`
PriceTrigger_AboveOnePermille(change_pct) == 1000 * change_pct.num > change_pct.den
PriceTrigger(change_pct) == 1000 * change_pct.num > 4 * change_pct.den

\* `elapsed > Duration::from_secs(30)`
Heartbeat_3s(self, t) == t - self.last_update_ts > 3000
Heartbeat(self, t) == t - self.last_update_ts > 30000

\* `(change_pct * 4.0).clamp(0.0, 0.012)`
ShockSpread(change_pct) ==
    IF 1000 * 4 * change_pct.num > 12 * change_pct.den THEN Frac(12, 1000)
    ELSE Frac(4 * change_pct.num, change_pct.den)

\* `let wall_threshold = 1000.0` (book quantities are in whole units)
wall_threshold == 1000

\* The occupied prefix that the wall scans walk: slots before the first
\* empty one.
Scanned(levels) == {i \in Slots : \A j \in 0 .. i : levels[j].price # 0}

\* 1. Scan Bids: the first wall whose front-run price is above the target
\* and below mid replaces the target.
WallBuyTarget(b, target_buy_price, mid_price) ==
    LET useful == {i \in Scanned(b.bids) :
                      /\ b.bids[i].qty >= wall_threshold
                      /\ b.bids[i].price + tick_size > target_buy_price
                      /\ b.bids[i].price + tick_size < mid_price}
    IN  IF useful = {} THEN target_buy_price
        ELSE b.bids[CHOOSE i \in useful : \A j \in useful : i <= j].price + tick_size

\* 2. Scan Asks.
WallSellTarget(b, target_sell_price, mid_price) ==
    LET useful == {i \in Scanned(b.asks) :
                      /\ b.asks[i].qty >= wall_threshold
                      /\ b.asks[i].price - tick_size < target_sell_price
                      /\ b.asks[i].price - tick_size > mid_price}
    IN  IF useful = {} THEN target_sell_price
        ELSE b.asks[CHOOSE i \in useful : \A j \in useful : i <= j].price - tick_size

\* `let buy_qty = 0.2`
buy_qty == 2

\* The buy side marked active only once the venue acknowledges: the
\* CreateOrder is emitted and the flag left as it was.
QuoteBuy_FlagOnAck(self, target_buy_price) ==
    IF ~self.has_active_buy
    THEN [self |-> [self EXCEPT !.active_buy_price = target_buy_price],
          actions |-> <<CreateOrder(target_buy_price, buy_qty, "Buy",
                                    self.active_buy_link_id)>>]
    ELSE IF PriceDiffAboveEps(self.active_buy_price - target_buy_price)
         THEN [self |-> [self EXCEPT !.active_buy_price = target_buy_price],
               actions |-> <<AmendOrder(target_buy_price, buy_qty, "Buy",
                                        self.active_buy_link_id)>>]
         ELSE [self |-> self, actions |-> <<>>]

\* BUY SIDE: create, amend or leave.
QuoteBuy(self, target_buy_price) ==
    IF ~self.has_active_buy
    THEN [self |-> [self EXCEPT !.has_active_buy = TRUE,
                                !.active_buy_price = target_buy_price],
          actions |-> <<CreateOrder(target_buy_price, buy_qty, "Buy",
                                    self.active_buy_link_id)>>]
    ELSE IF PriceDiffAboveEps(self.active_buy_price - target_buy_price)
         THEN [self |-> [self EXCEPT !.active_buy_price = target_buy_price],
               actions |-> <<AmendOrder(target_buy_price, buy_qty, "Buy",
                                        self.active_buy_link_id)>>]
         ELSE [self |-> self, actions |-> <<>>]

\* SELL SIDE
QuoteSell(self, target_sell_price) ==
    IF ~self.has_active_sell
    THEN [self |-> [self EXCEPT !.has_active_sell = TRUE,
                                !.active_sell_price = target_sell_price],
          actions |-> <<CreateOrder(target_sell_price, buy_qty, "Sell",
                                    self.active_sell_link_id)>>]
    ELSE IF PriceDiffAboveEps(self.active_sell_price - target_sell_price)
         THEN [self |-> [self EXCEPT !.active_sell_price = target_sell_price],
               actions |-> <<AmendOrder(target_sell_price, buy_qty, "Sell",
                                        self.active_sell_link_id)>>]
         ELSE [self |-> self, actions |-> <<>>]

\* on_tick from `let bybit_bid = book.bids[0]` to the end: the quoting
\* branch.
Requote(self, b, t) ==
    LET bybit_bid == b.bids[0]
        bybit_ask == b.asks[0]
        mid_price == (bybit_bid.price + bybit_ask.price) \div 2
        delta_ms == t - self.last_tick_arrival_ts
        ticked == [self EXCEPT
                      !.last_tick_arrival_ts = t,
                      !.tick_interval_ema = NextEma(self.tick_interval_ema, delta_ms)]
        tps_spread == TpsSpread(ticked.tick_interval_ema)
        elapsed == t - self.last_update_ts
        change_pct == ChangePct(self, mid_price)
        price_trigger == PriceTrigger(change_pct)
        heartbeat == Heartbeat(self, t)
        shock_spread == ShockSpread(change_pct)
        final_spread == FracMax(tps_spread, shock_spread)
        min_interval == IF price_trigger THEN 0 ELSE 100
        target_buy_price ==
            WallBuyTarget(b, RoundedBelow(bybit_bid.price, final_spread), mid_price)
        target_sell_price ==
            WallSellTarget(b, RoundedAbove(bybit_ask.price, final_spread), mid_price)
        buy == QuoteBuy(ticked, target_buy_price)
        sell == QuoteSell(buy.self, target_sell_price)
        actions == buy.actions \o sell.actions
    IN  IF bybit_bid.price = 0 \/ bybit_ask.price = 0
        THEN [self |-> self, ret |-> None]
        ELSE IF elapsed < min_interval /\ ~heartbeat
        THEN [self |-> ticked, ret |-> None]
        ELSE IF ~price_trigger /\ ~heartbeat
        THEN [self |-> ticked, ret |-> None]
        ELSE [self |-> [sell.self EXCEPT !.last_update_ts = t,
                                         !.last_update_mid = mid_price],
              ret |-> IF actions = <<>> THEN None ELSE actions]

\* on_tick falling through to the quoting branch when a held position is not
\* closed.
on_tick_QuoteWhileHolding(self, b, exch_ts, t) ==
    LET counted == [self EXCEPT !.tick_counter = @ + 1]
        stamped == IF exch_ts > 0 THEN [counted EXCEPT !.last_exch_ts = exch_ts]
                   ELSE counted
        held == HoldOrClose(stamped, b, t)
    IN  IF IsBatchDuplicate(counted, exch_ts)
        THEN [self |-> counted, ret |-> None]
        ELSE IF QtyAboveEps(stamped.position) /\ held.ret # None
        THEN held
        ELSE Requote(stamped, b, t)
\* MarketMaker::on_tick(&mut self, book, exch_ts), called at time t: the
\* strategy after the call and what the call returns.
on_tick(self, b, exch_ts, t) ==
    LET counted == [self EXCEPT !.tick_counter = @ + 1]
        stamped == IF exch_ts > 0 THEN [counted EXCEPT !.last_exch_ts = exch_ts]
                   ELSE counted
    IN  IF IsBatchDuplicate(counted, exch_ts)
        THEN [self |-> counted, ret |-> None]
        ELSE IF QtyAboveEps(stamped.position)
        THEN HoldOrClose(stamped, b, t)
        ELSE Requote(stamped, b, t)

(***************************************************************************)
(* main.rs: what the venue's replies do to the strategy and the clock      *)
(***************************************************************************)

\* A string the code searches is a sequence of characters.
StartsWith(s, pre) == Len(s) >= Len(pre) /\ SubSeq(s, 1, Len(pre)) = pre
Contains(s, sub) ==
    \E i \in 1 .. (Len(s) - Len(sub) + 1) : SubSeq(s, i, i + Len(sub) - 1) = sub

\* The decimal digits of n >= 0.
RECURSIVE Digits(_)
Digits(n) ==
    LET digit == <<"0", "1", "2", "3", "4", "5", "6", "7", "8", "9">>[(n % 10) + 1]
    IN  IF n < 10 THEN <<digit>> ELSE Append(Digits(n \div 10), digit)

\* The text of a link id: "b-<millis>" / "s-<millis>".
TextOf(link_id) == <<link_id[1], "-">> \o Digits(link_id[2])

\* `json.get(..)`: NoField when the key is absent or of another type.
NoField == <<>>
Field(v) == <<v>>

\* The side taken from the start of the reqId alone.
side_to_reset_PrefixOnly(req_id) ==
    IF StartsWith(req_id, <<"b", "-">>) THEN Field("Buy")
    ELSE IF StartsWith(req_id, <<"s", "-">>) THEN Field("Sell")
    ELSE NoField

\* `req_id.contains("bot-buy") || req_id.contains("-b-") ||
\* req_id.starts_with("b-")`, then the same for the sell side.
side_to_reset(req_id) ==
    IF \/ Contains(req_id, <<"b", "o", "t", "-", "b", "u", "y">>)
       \/ Contains(req_id, <<"-", "b", "-">>)
       \/ StartsWith(req_id, <<"b", "-">>)
    THEN Field("Buy")
    ELSE IF \/ Contains(req_id, <<"b", "o", "t", "-", "s", "e", "l", "l">>)
            \/ Contains(req_id, <<"-", "s", "-">>)
            \/ StartsWith(req_id, <<"s", "-">>)
         THEN Field("Sell")
         ELSE NoField

\* `if let Some(req_id) = json.get("reqId") .. if let Some(s) = side_to_reset
\* { strategy.reset_order(s) }`
ResetByReqId(self, r, t) ==
    IF r.reqId = NoField THEN self
    ELSE LET side == side_to_reset(r.reqId[1])
         IN  IF side = NoField THEN self ELSE reset_order(self, side[1], t)

\* `strategy.sync_position(0.0, 0.0); strategy.has_active_buy = false;
\* strategy.has_active_sell = false;`
ForceFlat(self, t) ==
    [sync_position(self, 0, 0, t) EXCEPT !.has_active_buy = FALSE,
                                         !.has_active_sell = FALSE]

\* "0. Update Time Offset from Header": the time-sync state after a reply
\* read at local time t (ms).
UpdateTimeOffset(sync, r, t) ==
    IF r.timenow = NoField THEN sync
    ELSE LET drift == r.timenow[1] - t
         IN  IF ~sync.offset_initialized
             THEN [time_offset |-> drift - 500, offset_initialized |-> TRUE]
             ELSE IF Abs(sync.time_offset - drift) > 1000
                  THEN [sync EXCEPT !.time_offset = drift - 500]
                  ELSE sync

\* `op == "auth"` with `success` true or retCode 0.
IsAuthSuccess(r) ==
    r.op = Field("auth") /\ (r.success = Field(TRUE) \/ r.retCode = Field(0))

\* "2. Check for Trade Errors": the strategy after a reply on the
\* order-entry stream.
TradeErrors_ResetBothSides(self, r, t) ==
    IF r.retCode = NoField \/ r.retCode = Field(0) THEN self
    ELSE IF r.retCode[1] = 110017 THEN ForceFlat(self, t)
    ELSE IF r.retCode[1] = 110001
         THEN reset_order(reset_order(ResetByReqId(self, r, t), "Buy", t), "Sell", t)
    ELSE self
TradeErrors(self, r, t) ==
    IF r.retCode = NoField \/ r.retCode = Field(0) THEN self
    ELSE IF r.retCode[1] = 110017 THEN ForceFlat(self, t)
    ELSE IF r.retCode[1] = 110001 THEN ResetByReqId(self, r, t)
    ELSE self

\* "RECOVERY LOGIC" of the account stream: the strategy and the clock after
\* a reply with a retCode (10006 sleeps 10 s).
Recovery(self, r, t) ==
    IF r.retCode = NoField \/ r.retCode = Field(0) THEN [self |-> self, t |-> t]
    ELSE LET ret_code == r.retCode[1]
             is_create_fail == r.op = Field("order.create")
             is_gone == ret_code = 110001
             is_mode_mismatch == ret_code = 10001
             is_duplicate == ret_code = 110072
             reset == IF (is_create_fail \/ is_gone \/ is_mode_mismatch \/ is_duplicate)
                         /\ ~r.not_modified
                      THEN ResetByReqId(self, r, t)
                      ELSE self
             synced == IF ret_code = 110017 \/ ret_code = 10404
                       THEN ForceFlat(reset, t)
                       ELSE reset
         IN  [self |-> synced, t |-> IF ret_code = 10006 THEN t + 10000 ELSE t]

\* `for item in data_arr` of an execution message.
RECURSIVE Executions(_, _, _)
Executions(self, items, t) ==
    IF items = <<>> THEN self
    ELSE LET item == Head(items)
             after == IF item.execType = "Trade"
                      THEN on_fill(self, item.side, item.execQty, item.execPrice, t)
                      ELSE IF item.orderStatus \in {"Cancelled", "Rejected", "Deactivated"}
                           THEN on_order_cancel(self, item.side)
                           ELSE self
         IN  Executions(after, Tail(items), t)

\* `for pos in data_arr` of a position message.
RECURSIVE Positions(_, _, _)
Positions(self, items, t) ==
    IF items = <<>> THEN self
    ELSE LET pos == Head(items)
             signed_qty == IF pos.side = "Buy" THEN pos.size
                           ELSE IF pos.side = "Sell" THEN -pos.size ELSE 0
             after == IF pos.symbol = "RIVERUSDT"
                      THEN sync_position(self, signed_qty, pos.avgPrice, t)
                      ELSE self
         IN  Positions(after, Tail(items), t)

\* One JSON payload of the account stream (BYBIT_PRIVATE_TOKEN, Active),
\* handled at time t: the strategy, the clock and the authenticated flag.
private_payload(self, authenticated, r, t) ==
    LET rec == Recovery(self, r, t)
        exe == IF r.topic = Field("execution")
               THEN Executions(rec.self, r.data, rec.t) ELSE rec.self
        pos == IF r.topic = Field("position")
               THEN Positions(exe, r.data, rec.t) ELSE exe
    IN  [self |-> pos, t |-> rec.t,
         authenticated |-> authenticated \/ IsAuthSuccess(r)]

\* One JSON payload of the order-entry stream (BYBIT_TRADE_TOKEN, Active).
trade_payload(self, sync, authenticated, r, t) ==
    [self |-> TradeErrors(self, r, t),
     sync |-> UpdateTimeOffset(sync, r, t),
     authenticated |-> authenticated \/ IsAuthSuccess(r)]

(***************************************************************************)
(* The order book under the market-data feed                               *)
(***************************************************************************)

\* Levels per side in the snapshot message the feed opens with.
SnapLevels == 19
\* Largest quantity an update carries.
MaxQty == 2

\* Prices direct update calls carry, per side: one worse than every snapshot
\* level of the side (50 for bids, 150 for asks) and prices better than all
\* of them.
BuyPrices == {50, 100, 101}
SellPrices == {101, 150}
UpdatePrices(side) == IF side = "Buy" THEN BuyPrices ELSE SellPrices
UpdateQtys == 0 .. MaxQty

\* What a delta's strings can parse to: failures and "0" give 0, and the
\* venue's number syntax includes a sign.
ParsedPrices == {Num(100), Num(0), Num(-100), NotANumber}
ParsedQtys == {Num(1), Num(0), Num(-1), NotANumber}

\* The snapshot: bids 99, 98, ... downwards, asks 102, 103, ... upwards, one
\* price unit apart.
SnapshotMsg ==
    [json |-> TRUE, ts |-> 2,
     b |-> [i \in 1 .. SnapLevels |-> <<Num(100 - i), Num(1)>>],
     a |-> [i \in 1 .. SnapLevels |-> <<Num(101 + i), Num(1)>>]]

DeltaMsgs ==
    {[json |-> TRUE, ts |-> 2, b |-> <<<<p, q>>>>, a |-> <<>>] :
        p \in ParsedPrices, q \in ParsedQtys}
    \cup
    {[json |-> TRUE, ts |-> NoTs, b |-> <<>>, a |-> <<<<p, q>>>>] :
        p \in ParsedPrices, q \in ParsedQtys}

\* A control frame or pong: not JSON.
BadMsg == [json |-> FALSE, ts |-> NoTs, b |-> <<>>, a |-> <<>>]

Messages == {SnapshotMsg, BadMsg} \cup DeltaMsgs

NoRet == [ok |-> TRUE, ts |-> 0]

\* L2OrderBook::new()
InitBook ==
    /\ book = EmptyBook
    /\ full = [Buy |-> {}, Sell |-> {}]
    /\ parse_ret = NoRet

\* One call of L2OrderBook::update.
Update(side, price, qty) ==
    /\ book' = update(book, side, price, qty)
    /\ UNCHANGED <<full, parse_ret, frameVars, stratVars, loopVars>>

\* One market-data payload through parse_and_update.
ParseAndUpdate(msg) ==
    LET r == parse_and_update(msg, book)
    IN  /\ book' = r.book
        /\ parse_ret' = r.ret
        /\ full' = full
        /\ UNCHANGED <<frameVars, stratVars, loopVars>>

\* One update call of the full-depth feed, applied to the book and to the
\* reference map.
FeedUpdate(side, price, qty) ==
    /\ book' = update(book, side, price, qty)
    /\ full' = FullUpdate(full, side, price, qty)
    /\ UNCHANGED <<parse_ret, frameVars, stratVars, loopVars>>

\* One message of the full-depth feed, applied to both.
FeedParse(msg) ==
    LET r == parse_and_update(msg, book)
    IN  /\ book' = r.book
        /\ full' = FullParse(msg, full)
        /\ parse_ret' = r.ret
        /\ UNCHANGED <<frameVars, stratVars, loopVars>>

\* The book against the reference map: the snapshot and single updates
\* that take a side past its 20 levels.
NextDepth ==
    \/ \E side \in {"Buy", "Sell"} : \E price \in UpdatePrices(side), qty \in UpdateQtys :
          FeedUpdate(side, price, qty)
    \/ \E msg \in {SnapshotMsg, BadMsg} : FeedParse(msg)

NextBook ==
    \/ \E side \in {"Buy", "Sell"} : \E price \in UpdatePrices(side), qty \in UpdateQtys :
          Update(side, price, qty)
    \/ \E msg \in Messages : ParseAndUpdate(msg)

(***************************************************************************)
(* The framer on its inputs                                                *)
(***************************************************************************)

\* Longest payload of the short frames tried (the frames at the 7-bit
\* length's limit, 125 and 126 bytes, are tried besides).
MaxLen == 3
\* Most bytes that follow a complete frame in the buffer.
MaxExtra == 1

\* n bytes of payload, each position its own value.
Fill(n) == [k \in 1 .. n |-> (k * 37 + 11) % 256]

\* b"ping"
Ping == <<112, 105, 110, 103>>

FirstBytes == {129, 138}      \* FIN|text, FIN|pong

\* Frame headers a peer can send: 7-bit lengths, 16-bit lengths (second byte
\* 126), 64-bit lengths (second byte 127) up to the largest, and masked ones.
Headers ==
    {<<f, n>> : f \in FirstBytes, n \in (0 .. MaxLen) \cup {125}}
    \cup {<<f, 126, 0, n>> : f \in FirstBytes, n \in (0 .. MaxLen) \cup {126, 200}}
    \cup {<<129, 126, 1, 0>>}
    \cup {<<f, 127, 0, 0, 0, 0, 0, 0, 0, n>> : f \in FirstBytes, n \in 0 .. MaxLen}
    \cup {<<129, 127, 0, 0, 0, 0, 1, 0, 0, 0>>,
          <<129, 127, 0, 0, 1, 0, 0, 0, 0, 0>>,
          <<129, 127, 255, 255, 255, 255, 255, 255, 255, 245>>,
          <<129, 127, 255, 255, 255, 255, 255, 255, 255, 246>>,
          <<129, 127, 255, 255, 255, 255, 255, 255, 255, 255>>}
    \cup {<<129, 128 + n>> \o mask_key : n \in 0 .. MaxLen}

\* The payload length a header declares, when it is one that fits a buffer
\* (0 otherwise).
Declared(h) ==
    IF h[2] % 128 = 126 THEN h[3] * 256 + h[4]
    ELSE IF h[2] % 128 = 127
    THEN IF \A k \in 3 .. 9 : h[k] = 0 THEN h[10] ELSE 0
    ELSE h[2] % 128

\* Buffers: each header cut short at every length, and each header followed
\* by one byte less than, exactly, and up to MaxExtra bytes more than the
\* payload it declares.
Buffers ==
    UNION {{SubSeq(h, 1, m) : m \in 0 .. Len(h)} : h \in Headers}
    \cup UNION {{h \o Fill(n) :
                     n \in {x \in (Declared(h) - 1) .. (Declared(h) + MaxExtra) : x >= 0}} :
                 h \in Headers}

\* Payloads handed to the encoder.
Payloads == {Fill(n) : n \in (0 .. MaxLen) \cup {125, 126, 127}} \cup {Ping}

NotEncoded == [src |-> <<>>, n |-> -1, dst |-> <<>>]
NotDecoded == [tag |-> "-", consumed |-> 0, payload |-> <<>>]

InitFrame ==
    /\ wire = <<>>
    /\ enc = NotEncoded
    /\ dec = NotDecoded

\* Bytes arrive from the peer.
Receive(buf) ==
    /\ wire' = buf
    /\ enc' = NotEncoded
    /\ dec' = NotDecoded
    /\ UNCHANGED <<bookVars, stratVars, loopVars>>

\* encode_text_frame(payload, &mut frame_buf); the caller takes
\* frame_buf[..frame_len].
Encode(payload) ==
    LET r == encode_text_frame(payload)
    IN  /\ enc' = [src |-> payload, n |-> r.n, dst |-> r.dst]
        /\ wire' = SubSeq(r.dst, 1, r.n)
        /\ dec' = NotDecoded
        /\ UNCHANGED <<bookVars, stratVars, loopVars>>

\* decode_frame(&mut buf[..])
Decode ==
    /\ dec = NotDecoded
    /\ dec' = decode_frame(wire)
    /\ UNCHANGED <<wire, enc, bookVars, stratVars, loopVars>>

NextFrame ==
    \/ \E buf \in Buffers : Receive(buf)
    \/ \E payload \in Payloads : Encode(payload)
    \/ Decode

(***************************************************************************)
(* The strategy under its callers (main.rs)                                *)
(***************************************************************************)

MaxTicks == 2
MaxPosition == 4

\* The times at which calls are made: either side of the 3 s time limit and
\* of the 30 s heartbeat.
Instants == {0, 3000, 3001, 30000, 30001}

\* A book holding the given <<price, qty>> levels.
RECURSIVE WithLevels(_, _, _)
WithLevels(b, side, lv) ==
    IF lv = <<>> THEN b
    ELSE WithLevels(update(b, side, Head(lv)[1], Head(lv)[2]), side, Tail(lv))
BookOf(bids, asks) == WithLevels(WithLevels(EmptyBook, "Buy", bids), "Sell", asks)

\* Best bid / best ask only.
TopOfBook(bid, ask) == BookOf(<<<<Px(bid), 1>>>>, <<<<Px(ask), 1>>>>)

\* A bid wall one level behind the best bid and an ask wall behind the best ask.
WallBook ==
    BookOf(<<<<Px(100600), 1>>, <<Px(100500), wall_threshold>>>>,
           <<<<Px(100700), 1>>, <<Px(100800), wall_threshold>>>>)

TickBooks ==
    { EmptyBook,
      TopOfBook(100000, 100100),
      TopOfBook(100300, 100400),
      TopOfBook(100350, 100400),
      TopOfBook(99500, 99650),
      WallBook }

\* exch_ts as the parser returns it: 0 when the message carries no "ts".
ExchTs == {0, 1, 2}

FillQtys == {buy_qty, 2 * buy_qty}
FillPrices == {Px(100000)}

\* (size signed by side, avgPrice) of a position update.
PositionUpdates ==
    {<<0, 0>>, <<buy_qty, Px(100000)>>, <<-buy_qty, Px(100000)>>}

\* MarketMaker::new at time 0.
InitStrat ==
    /\ now = 0
    /\ mm = new(0)
    /\ call = [op |-> "new"]

\* Time passes.
Elapse(t) ==
    /\ t > now
    /\ now' = t
    /\ UNCHANGED <<mm, call, bookVars, frameVars, loopVars>>

\* strategy.on_tick(&book, ts) at time `now`.
OnTick(b, exch_ts) ==
    /\ mm.tick_counter < MaxTicks
    /\ LET r == on_tick(mm, b, exch_ts, now)
       IN  /\ mm' = r.self
           /\ call' = [op |-> "on_tick", pre |-> mm, book |-> b,
                       exch_ts |-> exch_ts, at |-> now, ret |-> r.ret]
    /\ UNCHANGED <<now, bookVars, frameVars, loopVars>>

\* strategy.on_fill(side, qty, px)
OnFill(side, qty, px) ==
    /\ Abs(on_fill(mm, side, qty, px, now).position) <= MaxPosition
    /\ mm' = on_fill(mm, side, qty, px, now)
    /\ call' = [op |-> "on_fill"]
    /\ UNCHANGED <<now, bookVars, frameVars, loopVars>>

\* strategy.on_order_cancel(side)
OnOrderCancel(side) ==
    /\ mm' = on_order_cancel(mm, side)
    /\ call' = [op |-> "on_order_cancel"]
    /\ UNCHANGED <<now, bookVars, frameVars, loopVars>>

\* strategy.sync_position(signed_qty, entry_price)
SyncPosition(user_position, avg_price) ==
    /\ mm' = sync_position(mm, user_position, avg_price, now)
    /\ call' = [op |-> "sync_position"]
    /\ UNCHANGED <<now, bookVars, frameVars, loopVars>>

\* retCode 110017 / 10404: sync_position(0.0, 0.0) and both flags cleared.
ForcePositionZero ==
    /\ mm' = [sync_position(mm, 0, 0, now) EXCEPT !.has_active_buy = FALSE,
                                                  !.has_active_sell = FALSE]
    /\ call' = [op |-> "sync_position"]
    /\ UNCHANGED <<now, bookVars, frameVars, loopVars>>

NextStrat ==
    \/ \E t \in Instants : Elapse(t)
    \/ \E b \in TickBooks, exch_ts \in ExchTs : OnTick(b, exch_ts)
    \/ \E side \in {"Buy", "Sell"}, qty \in FillQtys, px \in FillPrices :
          OnFill(side, qty, px)
    \/ \E side \in {"Buy", "Sell"} : OnOrderCancel(side)
    \/ \E p \in PositionUpdates : SyncPosition(p[1], p[2])
    \/ ForcePositionZero

(***************************************************************************)
(* The quoting branch alone: ticks, cancels and rejected orders, no fills  *)
(***************************************************************************)

\* A book whose mid is 100.000, the book of the requote-on-shock example
\* (bid 100.6 / ask 100.7), and a book priced below one cent.
ShockBook == TopOfBook(100600, 100700)
SubCentBook == TopOfBook(4, 5)
QuoteBooks == {TopOfBook(99950, 100050), ShockBook, SubCentBook}

\* strategy.reset_order(s)
ResetOrder(side) ==
    /\ mm' = reset_order(mm, side, now)
    /\ call' = [op |-> "reset_order", side |-> side, pre |-> mm, at |-> now]
    /\ UNCHANGED <<now, bookVars, frameVars, loopVars>>

NextQuote ==
    \/ \E t \in Instants : Elapse(t)
    \/ \E b \in QuoteBooks : OnTick(b, 0)
    \/ \E side \in {"Buy", "Sell"} : OnOrderCancel(side)
    \/ \E side \in {"Buy", "Sell"} : ResetOrder(side)
    \/ ForcePositionZero

(***************************************************************************)
(* The log ring between the hot and the cold thread (main.rs)              *)
(***************************************************************************)

\* `RingBuffer::<LogMessage>::new(4096)`
capacity == 4096

NotPushed == [ret |-> "-", full |-> FALSE, kept |-> FALSE]

\* `producer.push(LogMessage {..})` on a ring holding n unread records: the
\* record is stored, or handed back in Err(Full) when there is no free slot.
push(n) ==
    IF n < capacity THEN [ring |-> n + 1, ret |-> "Ok"]
    ELSE [ring |-> n, ret |-> "Full"]

\* `consumer.pop()`: Ok(msg) while records are unread.
pop(n) == IF n > 0 THEN [ring |-> n - 1, ret |-> "Ok"] ELSE [ring |-> n, ret |-> "Empty"]

InitRing ==
    /\ ring = 0
    /\ hot_pc = "handle"
    /\ pushed = NotPushed

\* The hot thread handles a frame up to one of its `producer.push` calls
\* (a quote record per action, a status record per frame).
HotHandle ==
    /\ hot_pc = "handle"
    /\ hot_pc' = "push"
    /\ pushed' = NotPushed
    /\ UNCHANGED <<ring, bookVars, frameVars, stratVars, mainVars, ioVars>>

\* `let _ = producer.push(..)`: the result is discarded and the loop goes on.
HotPush_RetryWhenFull ==
    /\ hot_pc = "push"
    /\ LET r == push(ring)
       IN  /\ ring' = r.ring
           /\ pushed' = [ret |-> r.ret, full |-> ring = capacity, kept |-> r.ring = ring]
           /\ hot_pc' = IF r.ret = "Full" THEN "push" ELSE "handle"
    /\ UNCHANGED <<bookVars, frameVars, stratVars, mainVars, ioVars>>
HotPush ==
    /\ hot_pc = "push"
    /\ LET r == push(ring)
       IN  /\ ring' = r.ring
           /\ pushed' = [ret |-> r.ret, full |-> ring = capacity, kept |-> r.ring = ring]
    /\ hot_pc' = "handle"
    /\ UNCHANGED <<bookVars, frameVars, stratVars, mainVars, ioVars>>

\* The cold thread: `while let Ok(msg) = consumer.pop()`.
ColdPop ==
    /\ pop(ring).ret = "Ok"
    /\ ring' = pop(ring).ring
    /\ UNCHANGED <<hot_pc, pushed, bookVars, frameVars, stratVars, mainVars, ioVars>>

NextRing == HotHandle \/ HotPush \/ ColdPop

(***************************************************************************)
(* The main loop of the hot thread: the three venue sessions (main.rs)     *)
(***************************************************************************)

NotHandled == [on |-> "-"]

InitMain ==
    /\ state = "HandshakeSending"
    /\ priv_state = "HandshakeSending"
    /\ trade_state = "HandshakeSending"
    /\ priv_authenticated = FALSE
    /\ trade_authenticated = FALSE
    /\ time_offset = 0
    /\ offset_initialized = FALSE
    /\ trade_out = <<>>
    /\ handled = NotHandled

\* `let ts_ms = if offset_initialized { ((local_now as i64) + time_offset) as
\* u64 } else { local_now.saturating_sub(2000) }` (the clock values of the
\* model keep the sum in 0 .. 2^63, where the casts change nothing).
TsMs(sync, local_now) ==
    IF sync.offset_initialized THEN local_now + sync.time_offset
    ELSE IF local_now < 2000 THEN 0 ELSE local_now - 2000

Dash == <<"-">>
\* `req_json` of an action: the fields the venue's reply is matched on.
OrderFrame(action, ts_ms) ==
    LET type == action.action_type
        req_id ==
            IF type = "CreateOrder"
            THEN TextOf(action.link_id) \o Dash \o Digits(ts_ms)
            ELSE IF type = "AmendOrder"
            THEN <<"a", "m", "e", "n", "d">> \o Dash \o TextOf(action.link_id)
                     \o Dash \o Digits(ts_ms)
            ELSE IF type = "ClosePosition"
            THEN <<"c", "l", "o", "s", "e">> \o Dash
                     \o (IF action.side = "Buy" THEN <<"B", "u", "y">>
                         ELSE <<"S", "e", "l", "l">>)
                     \o Dash \o Digits(ts_ms)
            ELSE <<"c", "a", "n", "c", "e", "l">> \o Dash \o <<"a", "l", "l">>
                     \o Dash \o Digits(ts_ms)
        op == IF type \in {"CreateOrder", "ClosePosition"} THEN "order.create"
              ELSE IF type = "AmendOrder" THEN "order.amend"
              ELSE "order.cancel-all"
    IN  [op |-> op, reqId |-> req_id, ts |-> ts_ms, action |-> action]

\* `{"op":"auth","args":[api_key, expires, signature]}`
AuthFrame(t) == [op |-> "auth", expires |-> t + 5000]

\* `for action in actions`: the req_json texts built for ws_trade.
OrderFrames(actions, sync, t) ==
    [i \in 1 .. Len(actions) |-> OrderFrame(actions[i], TsMs(sync, t))]

\* Lengths of the texts the loop formats.  A millisecond Unix time has 13
\* digits, a link id is "b-" / "s-" and such a time; "{:.1}" and "{:.3}"
\* print the whole part, a point and one or three decimals.
MillisDigits == 13
SignatureLen == 64
LinkIdLen == 2 + MillisDigits
SideLen(side) == IF side = "Buy" THEN 3 ELSE 4
QtyLen(qty) == Len(Digits(qty \div 10)) + 2
PriceLen(price) == Len(Digits(price \div Px(1000))) + 4

\* The characters of each format string outside its placeholders.
SubscribeLen == 55
CreateLiteral == 255
AmendLiteral == 189
CloseLiteral == 271
CancelAllLiteral == 161
AuthLiteral == 31
PrivateSubscribeLen == 53

\* req_json.len() of an action.
OrderJsonLen(action) ==
    LET type == action.action_type
    IN  IF type = "CreateOrder"
        THEN CreateLiteral + 2 * LinkIdLen + 2 * MillisDigits + SideLen(action.side)
                 + QtyLen(action.qty) + PriceLen(action.price)
        ELSE IF type = "AmendOrder"
        THEN AmendLiteral + 2 * LinkIdLen + 2 * MillisDigits
                 + QtyLen(action.qty) + PriceLen(action.price)
        ELSE IF type = "ClosePosition"
        THEN CloseLiteral + 3 * SideLen(action.side) + 3 * MillisDigits
                 + QtyLen(action.qty)
        ELSE CancelAllLiteral + 2 * MillisDigits

\* auth_msg.len()
AuthMsgLen(key) == AuthLiteral + key + MillisDigits + SignatureLen

\* `encode_text_frame(json.as_bytes(), &mut frame_buf)` and the slice
\* &frame_buf[..frame_len].
Framed(on, json, payload_len) ==
    [on |-> on, json |-> json, payload_len |-> payload_len,
     frame_len |-> encode_text_frame([k \in 1 .. payload_len |-> 0]).n]

\* auth_msg at local time t, with the time sync of that moment.
AuthMsg(t, sync) ==
    [op |-> "auth", expires |-> AuthFrame(t).expires, at |-> t,
     time_offset |-> sync.time_offset]

\* `tls.write_plaintext(&frame_buf[..frame_len])`: an empty slice adds
\* nothing to the session's outbound buffer.
write_plaintext(queues, frame) ==
    IF frame.frame_len > 0
    THEN [queues EXCEPT ![frame.on] = Append(@, frame)]
    ELSE queues

\* `for action in actions`: what reaches ws_trade of the frames of a tick.
RECURSIVE WriteOrders(_, _)
WriteOrders(queues, frames) ==
    IF frames = <<>> THEN queues
    ELSE WriteOrders(write_plaintext(queues,
                         Framed("trade", Head(frames), OrderJsonLen(Head(frames).action))),
                     Tail(frames))

\* Lengths of BYBIT_API_KEY.  The variable is fixed before the loop starts
\* and first read when a session authenticates; the model draws the length
\* at that first use, which gives the same behaviours as drawing it at the
\* start.
ApiKeyLens == {17, 18}
\* Those with which auth_msg fits a frame.
FittingKeys == {key \in ApiKeyLens : Framed("trade", <<>>, AuthMsgLen(key)).frame_len > 0}
Keys == IF api_key = NoField THEN ApiKeyLens ELSE {api_key[1]}

\* Frames a session's outbound buffer holds at most.
MaxQueued == 3

\* The time-sync state.
Sync == [time_offset |-> time_offset, offset_initialized |-> offset_initialized]

\* BYBIT_TOKEN, writable.
PublicWritable ==
    /\ state \in {"HandshakeSending", "Subscribing"}
    /\ state' = IF state = "HandshakeSending" THEN "HandshakeWaiting" ELSE "Active"
    /\ tx' = IF state = "Subscribing"
             THEN write_plaintext(tx, Framed("public", [op |-> "subscribe"],
                                             SubscribeLen))
             ELSE tx
    /\ UNCHANGED <<priv_state, trade_state, priv_authenticated, trade_authenticated,
                   syncVars, trade_out, handled, ringVars, rxVars, api_key, auth_replies,
                   bookVars, frameVars, stratVars>>

\* BYBIT_TOKEN, readable while waiting for the handshake reply; upgraded:
\* the bytes read so far contain "101 Switching Protocols".
PublicHandshakeRead(upgraded) ==
    /\ state = "HandshakeWaiting"
    /\ state' = IF upgraded THEN "Subscribing" ELSE state
    /\ UNCHANGED <<priv_state, trade_state, priv_authenticated, trade_authenticated,
                   syncVars, trade_out, handled, ringVars, ioVars, bookVars, frameVars,
                   stratVars>>

\* `if let Ok(ts) = parse_and_update(..) { if trade_authenticated {`
Ticks_Unauthenticated(parsed_ok, authenticated) == parsed_ok
Ticks(parsed_ok, authenticated) == parsed_ok /\ authenticated

\* BYBIT_TOKEN, readable in Active: one decoded, non-empty payload.
PublicPayload(msg) ==
    /\ state = "Active"
    /\ LET parsed == parse_and_update(msg, book)
           ticks == Ticks(parsed.ret.ok, trade_authenticated)
           r == on_tick(mm, parsed.book, parsed.ret.ts, now)
           sync == [time_offset |-> time_offset,
                    offset_initialized |-> offset_initialized]
       IN  /\ book' = parsed.book
           /\ parse_ret' = parsed.ret
           /\ full' = full
           /\ ticks => mm.tick_counter < MaxTicks
           /\ mm' = IF ticks THEN r.self ELSE mm
           /\ call' = IF ticks
                      THEN [op |-> "on_tick", pre |-> mm, book |-> parsed.book,
                            exch_ts |-> parsed.ret.ts, at |-> now, ret |-> r.ret]
                      ELSE call
           /\ trade_out' = IF ticks THEN trade_out \o OrderFrames(r.ret, sync, now)
                           ELSE trade_out
           /\ tx' = IF ticks THEN WriteOrders(tx, OrderFrames(r.ret, sync, now))
                    ELSE tx
    /\ handled' = [on |-> "public", msg |-> msg]
    /\ UNCHANGED <<now, sessVars, syncVars, ringVars, rxVars, api_key, auth_replies,
                   frameVars>>

\* One decoded, non-empty payload of the market-data stream inside the
\* "Frame Decoding Loop": st is what the loop has changed so far (book,
\* parse_ret, mm, call, trade_out, tx).
public_payload(st, msg, authenticated, sync, t) ==
    LET parsed == parse_and_update(msg, st.book)
        ticks == Ticks(parsed.ret.ok, authenticated)
        r == on_tick(st.mm, parsed.book, parsed.ret.ts, t)
    IN  [book |-> parsed.book,
         parse_ret |-> parsed.ret,
         mm |-> IF ticks THEN r.self ELSE st.mm,
         call |-> IF ticks
                  THEN [op |-> "on_tick", pre |-> st.mm, book |-> parsed.book,
                        exch_ts |-> parsed.ret.ts, at |-> t, ret |-> r.ret]
                  ELSE st.call,
         trade_out |-> IF ticks THEN st.trade_out \o OrderFrames(r.ret, sync, t)
                       ELSE st.trade_out,
         tx |-> IF ticks THEN WriteOrders(st.tx, OrderFrames(r.ret, sync, t))
                ELSE st.tx]

\* The loop leaving the read at the first payload that fails to parse.
RECURSIVE public_payloads_BreakOnError(_, _, _, _, _)
public_payloads_BreakOnError(st, msgs, authenticated, sync, t) ==
    IF msgs = <<>> THEN st
    ELSE IF ~parse_and_update(Head(msgs), st.book).ret.ok
    THEN public_payload(st, Head(msgs), authenticated, sync, t)
    ELSE public_payloads_BreakOnError(public_payload(st, Head(msgs), authenticated, sync, t),
                                      Tail(msgs), authenticated, sync, t)
\* The "Frame Decoding Loop" over the payloads of one read, in order.
RECURSIVE public_payloads(_, _, _, _, _)
public_payloads(st, msgs, authenticated, sync, t) ==
    IF msgs = <<>> THEN st
    ELSE public_payloads(public_payload(st, Head(msgs), authenticated, sync, t),
                         Tail(msgs), authenticated, sync, t)

\* What the loop of a market-data read can change, as it is now.
LoopState ==
    [book |-> book, parse_ret |-> parse_ret, mm |-> mm, call |-> call,
     trade_out |-> trade_out, tx |-> tx]

\* BYBIT_TOKEN, readable in Active: one read whose frames carry the payloads
\* msgs.
PublicBatch(msgs) ==
    /\ state = "Active"
    /\ msgs # <<>>
    /\ LET st == public_payloads(LoopState, msgs, trade_authenticated, Sync, now)
       IN  /\ st.mm.tick_counter <= MaxTicks
           /\ book' = st.book
           /\ parse_ret' = st.parse_ret
           /\ full' = full
           /\ mm' = st.mm
           /\ call' = st.call
           /\ trade_out' = st.trade_out
           /\ tx' = st.tx
    /\ handled' = [on |-> "public", msg |-> msgs[Len(msgs)], msgs |-> msgs,
                   pre |-> LoopState, at |-> now]
    /\ UNCHANGED <<now, sessVars, syncVars, ringVars, rxVars, api_key, auth_replies,
                   frameVars>>

\* BYBIT_PRIVATE_TOKEN, writable.
PrivateWritable(key) ==
    /\ priv_state \in {"HandshakeSending", "Authenticating"}
    /\ priv_state' = IF priv_state = "HandshakeSending" THEN "HandshakeWaiting"
                     ELSE "Active"
    /\ IF priv_state = "Authenticating"
       THEN /\ key \in Keys
            /\ api_key' = Field(key)
            /\ auth_replies' = auth_replies
            /\ tx' = write_plaintext(tx, Framed("private", AuthMsg(now, Sync),
                                                AuthMsgLen(key)))
       ELSE UNCHANGED txVars
    /\ UNCHANGED <<state, trade_state, priv_authenticated, trade_authenticated,
                   syncVars, trade_out, handled, ringVars, rxVars, bookVars, frameVars,
                   stratVars>>

PrivateHandshakeRead_ToSubscribing(upgraded) ==
    /\ priv_state = "HandshakeWaiting"
    /\ priv_state' = IF upgraded THEN "Subscribing" ELSE priv_state
    /\ UNCHANGED <<state, trade_state, priv_authenticated, trade_authenticated,
                   syncVars, trade_out, handled, ringVars, ioVars, bookVars, frameVars,
                   stratVars>>
PrivateHandshakeRead(upgraded) ==
    /\ priv_state = "HandshakeWaiting"
    /\ priv_state' = IF upgraded THEN "Authenticating" ELSE priv_state
    /\ UNCHANGED <<state, trade_state, priv_authenticated, trade_authenticated,
                   syncVars, trade_out, handled, ringVars, ioVars, bookVars, frameVars,
                   stratVars>>

\* BYBIT_PRIVATE_TOKEN, readable in Active: one decoded JSON payload.
PrivatePayload(r) ==
    /\ priv_state = "Active"
    /\ LET h == private_payload(mm, priv_authenticated, r, now)
       IN  /\ Abs(h.self.position) <= MaxPosition
           /\ mm' = h.self
           /\ now' = h.t
           /\ priv_authenticated' = h.authenticated
           /\ IsAuthSuccess(r) => Len(tx["private"]) < MaxQueued
           /\ tx' = IF IsAuthSuccess(r)
                    THEN write_plaintext(tx, Framed("private", [op |-> "subscribe"],
                                                    PrivateSubscribeLen))
                    ELSE tx
           /\ auth_replies' = IF IsAuthSuccess(r) THEN auth_replies + 1
                               ELSE auth_replies
    /\ call' = [op |-> "reply"]
    /\ handled' = [on |-> "private", reply |-> r, pre |-> mm, at |-> now,
                   time_offset |-> time_offset,
                   offset_initialized |-> offset_initialized]
    /\ UNCHANGED <<state, priv_state, trade_state, trade_authenticated, syncVars,
                   trade_out, ringVars, rxVars, api_key, bookVars, frameVars>>

\* The decode loop of one read of the account stream over the payloads rs:
\* the strategy, the clock, the authenticated flag, request_priv_sub and the
\* number of successful auth replies among rs.
RECURSIVE PrivatePayloads(_, _, _, _)
PrivatePayloads(self, authenticated, rs, t) ==
    IF rs = <<>>
    THEN [self |-> self, t |-> t, authenticated |-> authenticated,
          request_priv_sub |-> FALSE, successes |-> 0]
    ELSE LET h == private_payload(self, authenticated, Head(rs), t)
             rest == PrivatePayloads(h.self, h.authenticated, Tail(rs), h.t)
             ok == IsAuthSuccess(Head(rs))
         IN  [rest EXCEPT !.request_priv_sub = ok \/ @,
                          !.successes = IF ok THEN @ + 1 ELSE @]

\* The read sending one subscription per successful auth reply.
PrivateRead_SubscribePerReply(rs) ==
    /\ priv_state = "Active"
    /\ rs # <<>>
    /\ LET h == PrivatePayloads(mm, priv_authenticated, rs, now)
           sub == Framed("private", [op |-> "subscribe"], PrivateSubscribeLen)
       IN  /\ Abs(h.self.position) <= MaxPosition
           /\ mm' = h.self
           /\ now' = h.t
           /\ priv_authenticated' = h.authenticated
           /\ Len(tx["private"]) + h.successes <= MaxQueued
           /\ tx' = [tx EXCEPT !["private"] = @ \o [i \in 1 .. h.successes |-> sub]]
           /\ auth_replies' = auth_replies + h.successes
    /\ call' = [op |-> "reply"]
    /\ handled' = [on |-> "private", reply |-> rs[Len(rs)], pre |-> mm, at |-> now,
                   time_offset |-> time_offset,
                   offset_initialized |-> offset_initialized]
    /\ UNCHANGED <<state, priv_state, trade_state, trade_authenticated, syncVars,
                   trade_out, ringVars, rxVars, api_key, bookVars, frameVars>>
\* BYBIT_PRIVATE_TOKEN, readable in Active: one read whose decode loop
\* yields the JSON payloads rs, then `if request_priv_sub { .. }`.
PrivateRead(rs) ==
    /\ priv_state = "Active"
    /\ rs # <<>>
    /\ LET h == PrivatePayloads(mm, priv_authenticated, rs, now)
       IN  /\ Abs(h.self.position) <= MaxPosition
           /\ mm' = h.self
           /\ now' = h.t
           /\ priv_authenticated' = h.authenticated
           /\ h.request_priv_sub => Len(tx["private"]) < MaxQueued
           /\ tx' = IF h.request_priv_sub
                    THEN write_plaintext(tx, Framed("private", [op |-> "subscribe"],
                                                    PrivateSubscribeLen))
                    ELSE tx
           /\ auth_replies' = auth_replies + h.successes
    /\ call' = [op |-> "reply"]
    /\ handled' = [on |-> "private", reply |-> rs[Len(rs)], pre |-> mm, at |-> now,
                   time_offset |-> time_offset,
                   offset_initialized |-> offset_initialized]
    /\ UNCHANGED <<state, priv_state, trade_state, trade_authenticated, syncVars,
                   trade_out, ringVars, rxVars, api_key, bookVars, frameVars>>

\* BYBIT_TRADE_TOKEN, writable.
TradeWritable(key) ==
    /\ trade_state \in {"HandshakeSending", "Authenticating"}
    /\ trade_state' = IF trade_state = "HandshakeSending" THEN "HandshakeWaiting"
                      ELSE "Active"
    /\ trade_out' = IF trade_state = "Authenticating"
                    THEN Append(trade_out, AuthFrame(now)) ELSE trade_out
    /\ IF trade_state = "Authenticating"
       THEN /\ key \in Keys
            /\ api_key' = Field(key)
            /\ auth_replies' = auth_replies
            /\ tx' = write_plaintext(tx, Framed("trade", AuthMsg(now, Sync),
                                                AuthMsgLen(key)))
       ELSE UNCHANGED txVars
    /\ UNCHANGED <<state, priv_state, priv_authenticated, trade_authenticated,
                   syncVars, handled, ringVars, rxVars, bookVars, frameVars, stratVars>>

TradeHandshakeRead(upgraded) ==
    /\ trade_state = "HandshakeWaiting"
    /\ trade_state' = IF upgraded THEN "Authenticating" ELSE trade_state
    /\ UNCHANGED <<state, priv_state, priv_authenticated, trade_authenticated,
                   syncVars, trade_out, handled, ringVars, ioVars, bookVars, frameVars,
                   stratVars>>

\* BYBIT_TRADE_TOKEN, readable in Active: one decoded JSON payload.
TradePayload(r) ==
    /\ trade_state = "Active"
    /\ LET sync == [time_offset |-> time_offset,
                    offset_initialized |-> offset_initialized]
           h == trade_payload(mm, sync, trade_authenticated, r, now)
       IN  /\ mm' = h.self
           /\ time_offset' = h.sync.time_offset
           /\ offset_initialized' = h.sync.offset_initialized
           /\ trade_authenticated' = h.authenticated
    /\ call' = [op |-> "reply"]
    /\ handled' = [on |-> "trade", reply |-> r, pre |-> mm, at |-> now,
                   time_offset |-> time_offset,
                   offset_initialized |-> offset_initialized]
    /\ UNCHANGED <<now, state, priv_state, trade_state, priv_authenticated,
                   trade_out, ringVars, ioVars, bookVars, frameVars>>

\* A market-data message setting the best bid 100.000 and the best ask
\* 100.100, and one moving the best bid to 100.050.
QuoteMsg ==
    [json |-> TRUE, ts |-> 1,
     b |-> <<<<Num(Px(100000)), Num(1)>>>>, a |-> <<<<Num(Px(100100)), Num(1)>>>>]
BidMsg ==
    [json |-> TRUE, ts |-> NoTs, b |-> <<<<Num(Px(100050)), Num(1)>>>>, a |-> <<>>]
MainMsgs == {QuoteMsg, BidMsg, BadMsg}

\* A reply of the venue, as the fields the handlers read.
Reply(op, success, retCode, reqId, timenow) ==
    [op |-> op, success |-> success, retCode |-> retCode, not_modified |-> FALSE,
     reqId |-> reqId, timenow |-> timenow, topic |-> NoField, data |-> <<>>]

AuthOk == Reply(Field("auth"), Field(TRUE), Field(0), NoField, NoField)
AuthFailed == Reply(Field("auth"), Field(FALSE), Field(10004), NoField, NoField)
\* The acknowledgement of an order: retCode 0, op order.create.
OrderAck(req_id) == Reply(Field("order.create"), NoField, Field(0), Field(req_id), NoField)
FirstBuyReqId == TextOf(LinkId("b", 0)) \o Dash \o Digits(28001)

SessionReplies == {AuthOk, AuthFailed, OrderAck(FirstBuyReqId)}

\* The time of the first heartbeat.
SessionInstants == {30001}

NextSession ==
    \/ \E t \in SessionInstants : Elapse(t)
    \/ PublicWritable
    \/ \E upgraded \in BOOLEAN : PublicHandshakeRead(upgraded)
    \/ \E msg \in MainMsgs : PublicPayload(msg)
    \/ \E key \in FittingKeys : PrivateWritable(key)
    \/ \E upgraded \in BOOLEAN : PrivateHandshakeRead(upgraded)
    \/ \E r \in SessionReplies : PrivatePayload(r)
    \/ \E key \in FittingKeys : TradeWritable(key)
    \/ \E upgraded \in BOOLEAN : TradeHandshakeRead(upgraded)
    \/ \E r \in SessionReplies : TradePayload(r)

\* Server-minus-local differences of the replies that carry header.Timenow.
Drifts == {-1200, 0, 600, 1001, 2000}

\* An order acknowledgement carrying header.Timenow.
TimedReply(timenow) ==
    Reply(Field("order.create"), NoField, Field(0), Field(FirstBuyReqId), Field(timenow))

\* (Timenow parses as u64: not negative.)
SyncReplies(t) == {AuthOk} \cup {TimedReply(t + d) : d \in {x \in Drifts : t + x >= 0}}

NextSync ==
    \/ \E t \in Instants : Elapse(t)
    \/ \E key \in FittingKeys : TradeWritable(key)
    \/ \E upgraded \in BOOLEAN : TradeHandshakeRead(upgraded)
    \/ \E r \in SyncReplies(now) : TradePayload(r)

\* Error codes of the venue that the recovery paths name.
ErrorCodes == {110001, 10001, 10404}

\* The requests built for ws_trade so far that carry a reqId.
Requests == {trade_out[i] : i \in {j \in 1 .. Len(trade_out) : trade_out[j].op # "auth"}}

\* The venue's rejection of a request: its op and reqId come back with a
\* retCode.
ErrorReply(frame, code) ==
    Reply(Field(frame.op), NoField, Field(code), Field(frame.reqId), NoField)

ErrorReplies == {ErrorReply(frame, code) : frame \in Requests, code \in ErrorCodes}

\* A position message of the account stream: long 0.2 at 100.000.
PositionMsg ==
    [op |-> NoField, success |-> NoField, retCode |-> NoField, not_modified |-> FALSE,
     reqId |-> NoField, timenow |-> NoField, topic |-> Field("position"),
     data |-> <<[symbol |-> "RIVERUSDT", side |-> "Buy", size |-> 2,
                 avgPrice |-> Px(100000)]>>]

\* A market-data message moving the best bid to 100.600 and the best ask to
\* 100.700 (the level at 100.100 is deleted).
ShockMsg ==
    [json |-> TRUE, ts |-> 2,
     b |-> <<<<Num(Px(100600)), Num(1)>>>>,
     a |-> <<<<Num(Px(100100)), Num(0)>>, <<Num(Px(100700)), Num(1)>>>>]

NextErrors ==
    \/ \E t \in SessionInstants : Elapse(t)
    \/ PublicWritable
    \/ PublicHandshakeRead(TRUE)
    \/ \E msg \in {QuoteMsg, ShockMsg} : PublicPayload(msg)
    \/ \E key \in FittingKeys : PrivateWritable(key)
    \/ PrivateHandshakeRead(TRUE)
    \/ \E r \in {PositionMsg} \cup ErrorReplies : PrivatePayload(r)
    \/ \E key \in FittingKeys : TradeWritable(key)
    \/ TradeHandshakeRead(TRUE)
    \/ \E r \in {AuthOk} \cup ErrorReplies : TradePayload(r)

\* NextErrors with the error replies on the order-entry stream only.
NextTradeErrors ==
    \/ \E t \in SessionInstants : Elapse(t)
    \/ PublicWritable
    \/ PublicHandshakeRead(TRUE)
    \/ \E msg \in {QuoteMsg, ShockMsg} : PublicPayload(msg)
    \/ \E key \in FittingKeys : PrivateWritable(key)
    \/ PrivateHandshakeRead(TRUE)
    \/ PrivatePayload(PositionMsg)
    \/ \E key \in FittingKeys : TradeWritable(key)
    \/ TradeHandshakeRead(TRUE)
    \/ \E r \in {AuthOk} \cup ErrorReplies : TradePayload(r)

(***************************************************************************)
(* main.rs: the receive buffer of the market-data session                  *)
(***************************************************************************)

\* buf.len(): 65536 bytes in the source; the model's buffer is short, so
\* that the venue's frames reach its end.
InboundCap == 5

InitIo ==
    /\ net = <<>>
    /\ inbound_buf = <<>>
    /\ delivered = <<>>
    /\ framed = <<>>
    /\ skipped = <<>>
    /\ api_key = NoField
    /\ auth_replies = 0
    /\ tx = [on \in {"public", "private", "trade"} |-> <<>>]

\* "Frame Decoding Loop" over data = buf[..end]: the non-empty payloads taken
\* from the front, and buf[current_pos..end] where the loop breaks (Ok(None)
\* or Err).
RECURSIVE DecodeLoop(_, _)
DecodeLoop(data, out) ==
    LET d == decode_frame(data)
    IN  IF d.tag = "Some"
        THEN DecodeLoop(SubSeq(data, d.consumed + 1, Len(data)),
                        IF d.payload # <<>> THEN Append(out, d.payload) ELSE out)
        ELSE [rest |-> data, out |-> out]

\* Frames of the venue: text frames with one byte and with as many bytes as
\* fill the buffer, a pong without payload, and a masked text frame.
TextA == <<129, 1, 65>>
TextFull == <<129, InboundCap - 2>> \o [k \in 1 .. (InboundCap - 2) |-> 66]
Pong == <<138, 0>>
MaskedText == <<129, 129>> \o mask_key \o <<64>>
WellFormed == {TextA, TextFull, Pong}
VenueFrames == WellFormed \cup {MaskedText}

\* Frames the venue sends in all.
MaxFrames == 3

\* The venue sends a frame on the upgraded connection.
VenueSend(frame) ==
    /\ state \in {"Subscribing", "Active"}
    /\ Len(framed) < MaxFrames
    /\ net' = net \o frame
    /\ framed' = Append(framed, frame)
    /\ UNCHANGED <<inbound_buf, delivered, skipped, txVars, ringVars, mainVars,
                   bookVars, frameVars, stratVars>>

\* PublicRead without `if offset >= buf.len() { offset = 0; }`, the read
\* going on past the end of the buffer.
PublicRead_NoOverflowReset(n) ==
    /\ state \in {"Subscribing", "Active"}
    /\ LET data == inbound_buf \o SubSeq(net, 1, n)
           loop == DecodeLoop(data, <<>>)
       IN  /\ n \in 1 .. (IF Len(net) < InboundCap THEN Len(net) ELSE InboundCap)
           /\ net' = SubSeq(net, n + 1, Len(net))
           /\ IF state = "Active"
              THEN /\ inbound_buf' = loop.rest
                   /\ delivered' = delivered \o loop.out
                   /\ skipped' = skipped
              ELSE /\ inbound_buf' = <<>>
                   /\ delivered' = delivered
                   /\ skipped' = skipped \o data
    /\ UNCHANGED <<framed, txVars, ringVars, mainVars, bookVars, frameVars, stratVars>>

\* PublicRead without `buf.copy_within(current_pos..end, 0)`: the next read
\* starts at offset 0 again.
PublicRead_TailDropped(n) ==
    /\ state \in {"Subscribing", "Active"}
    /\ LET offset == IF Len(inbound_buf) >= InboundCap THEN 0 ELSE Len(inbound_buf)
           room == InboundCap - offset
           data == SubSeq(inbound_buf, 1, offset) \o SubSeq(net, 1, n)
           loop == DecodeLoop(data, <<>>)
       IN  /\ n \in 1 .. (IF Len(net) < room THEN Len(net) ELSE room)
           /\ net' = SubSeq(net, n + 1, Len(net))
           /\ inbound_buf' = <<>>
           /\ IF state = "Active"
              THEN /\ delivered' = delivered \o loop.out
                   /\ skipped' = skipped
              ELSE /\ delivered' = delivered
                   /\ skipped' = skipped \o data
    /\ UNCHANGED <<framed, txVars, ringVars, mainVars, bookVars, frameVars, stratVars>>
\* BYBIT_TOKEN, readable after the handshake: ws_client.read returns n bytes.
\* (The payloads of VenueFrames are no JSON: parse_and_update returns Err for
\* them and neither the book nor the strategy is touched.)
PublicRead(n) ==
    /\ state \in {"Subscribing", "Active"}
    /\ LET offset == IF Len(inbound_buf) >= InboundCap THEN 0 ELSE Len(inbound_buf)
           room == InboundCap - offset
           data == SubSeq(inbound_buf, 1, offset) \o SubSeq(net, 1, n)
           loop == DecodeLoop(data, <<>>)
       IN  /\ n \in 1 .. (IF Len(net) < room THEN Len(net) ELSE room)
           /\ net' = SubSeq(net, n + 1, Len(net))
           /\ IF state = "Active"
              THEN /\ inbound_buf' = loop.rest
                   /\ delivered' = delivered \o loop.out
                   /\ skipped' = skipped
              ELSE /\ inbound_buf' = <<>>
                   /\ delivered' = delivered
                   /\ skipped' = skipped \o data
    /\ UNCHANGED <<framed, txVars, ringVars, mainVars, bookVars, frameVars, stratVars>>

\* "101 Switching Protocols", shortened to its first three bytes ("101").
Marker == <<49, 48, 49>>

\* `std::str::from_utf8(&buf[..end])` is Ok.  The bytes of the model are
\* ASCII or the first byte of a frame (129, 138), which starts no UTF-8
\* sequence.
Utf8Ok(bytes) == \A i \in 1 .. Len(bytes) : bytes[i] < 128

\* What the peer answers to the Upgrade request: the status line with the
\* marker, a header line, a refusal, and a frame sent right after the
\* answer.
PeerBytes == {<<72>> \o Marker, <<13, 10>>, <<72, 52>>, Pong}

\* Bytes the peer sends before the session is upgraded.
MaxAnswer == 6

\* The peer sends bytes while the client waits for the handshake reply.
PeerAnswer(bytes) ==
    /\ state = "HandshakeWaiting"
    /\ Len(net) + Len(inbound_buf) + Len(bytes) <= MaxAnswer
    /\ net' = net \o bytes
    /\ UNCHANGED <<inbound_buf, delivered, framed, skipped, txVars, ringVars, mainVars,
                   bookVars, frameVars, stratVars>>

\* BYBIT_TOKEN, readable in HandshakeWaiting: ws_client.read returns n bytes
\* into buf[offset..]; inbound_buf is buf[..offset].
PublicUpgradeRead(n) ==
    /\ state = "HandshakeWaiting"
    /\ LET offset == IF Len(inbound_buf) >= InboundCap THEN 0 ELSE Len(inbound_buf)
           room == InboundCap - offset
           data == SubSeq(inbound_buf, 1, offset) \o SubSeq(net, 1, n)
       IN  /\ n \in 1 .. (IF Len(net) < room THEN Len(net) ELSE room)
           /\ net' = SubSeq(net, n + 1, Len(net))
           /\ IF ~Utf8Ok(data)
              THEN state' = state /\ inbound_buf' = SubSeq(inbound_buf, 1, offset)
              ELSE IF Contains(data, Marker)
              THEN state' = "Subscribing" /\ inbound_buf' = <<>>
              ELSE state' = state /\ inbound_buf' = data
    /\ UNCHANGED <<priv_state, trade_state, priv_authenticated, trade_authenticated,
                   syncVars, trade_out, handled, delivered, framed, skipped, txVars,
                   ringVars, bookVars, frameVars, stratVars>>

\* The market-data session from the Upgrade request to Subscribing, the
\* answer arriving in reads of any size.
NextUpgrade ==
    \/ PublicWritable
    \/ \E bytes \in PeerBytes : PeerAnswer(bytes)
    \/ \E n \in 1 .. InboundCap : PublicUpgradeRead(n)

NextRecv ==
    \/ PublicWritable
    \/ PublicHandshakeRead(TRUE)
    \/ \E frame \in VenueFrames : VenueSend(frame)
    \/ \E n \in 1 .. InboundCap : PublicRead(n)

\* The two private sessions authenticating, with keys of both lengths and
\* with replies that set the time sync.
NextAuth ==
    \/ \E t \in Instants : Elapse(t)
    \/ \E key \in ApiKeyLens : PrivateWritable(key)
    \/ PrivateHandshakeRead(TRUE)
    \/ PrivatePayload(AuthOk)
    \/ \E key \in ApiKeyLens : TradeWritable(key)
    \/ TradeHandshakeRead(TRUE)
    \/ \E r \in SyncReplies(now) : TradePayload(r)

\* Replies of the account stream to the auth frame, and the payloads one
\* read of it can carry.
AuthReplies == {AuthOk, AuthFailed, PositionMsg}
MaxPayloads == 2
ReadBatches ==
    UNION {[1 .. k -> AuthReplies] : k \in 1 .. MaxPayloads}

\* The account session from its handshake on, the venue's replies arriving
\* one or several to a read.
NextAccount ==
    \/ \E t \in Instants : Elapse(t)
    \/ \E key \in FittingKeys : PrivateWritable(key)
    \/ \E upgraded \in BOOLEAN : PrivateHandshakeRead(upgraded)
    \/ \E rs \in ReadBatches : PrivateRead(rs)

\* An execution message of the account stream: one trade of qty at px.
ExecutionMsg(side, qty, px) ==
    [op |-> NoField, success |-> NoField, retCode |-> NoField, not_modified |-> FALSE,
     reqId |-> NoField, timenow |-> NoField, topic |-> Field("execution"),
     data |-> <<[symbol |-> "RIVERUSDT", side |-> side, execType |-> "Trade",
                 orderStatus |-> "Filled", execQty |-> qty, execPrice |-> px]>>]

\* Fills of one and of two quote sizes at 100.000 and at 101.000.
ExecutionMsgs ==
    {ExecutionMsg(side, qty, px) :
        side \in {"Buy", "Sell"}, qty \in FillQtys, px \in {Px(100000), Px(101000)}}

\* The account session reporting fills at more than one price.
NextFills ==
    \/ \E key \in FittingKeys : PrivateWritable(key)
    \/ PrivateHandshakeRead(TRUE)
    \/ \E msg \in ExecutionMsgs : PrivatePayload(msg)

\* The payloads one market-data read can carry: the feed sends each book
\* message once, unparsable payloads any number of times.
MaxBatch == 2
Batches ==
    {msgs \in UNION {[1 .. k -> {QuoteMsg, ShockMsg, BadMsg}] : k \in 1 .. MaxBatch} :
        \A m \in {QuoteMsg, ShockMsg} :
            Cardinality({i \in 1 .. Len(msgs) : msgs[i] = m}) <= 1}

\* Market data arriving several frames to a read, the order-entry session
\* authenticating meanwhile.
NextBatch ==
    \/ \E t \in SessionInstants : Elapse(t)
    \/ PublicWritable
    \/ PublicHandshakeRead(TRUE)
    \/ \E msgs \in Batches : PublicBatch(msgs)
    \/ \E key \in FittingKeys : TradeWritable(key)
    \/ TradeHandshakeRead(TRUE)
    \/ TradePayload(AuthOk)

InitLoop == InitRing /\ InitMain /\ InitIo

Init == InitBook /\ InitFrame /\ InitStrat /\ InitLoop

SpecBook == Init /\ [][NextBook]_vars

SpecDepth == Init /\ [][NextDepth]_vars

SpecFrame == Init /\ [][NextFrame]_vars

SpecStrat == Init /\ [][NextStrat]_vars

SpecQuote == Init /\ [][NextQuote]_vars

SpecRing == Init /\ [][NextRing]_vars

SpecSession == Init /\ [][NextSession]_vars

SpecSync == Init /\ [][NextSync]_vars

SpecErrors == Init /\ [][NextErrors]_vars

SpecTradeErrors == Init /\ [][NextTradeErrors]_vars

SpecRecv == Init /\ [][NextRecv]_vars

SpecAuth == Init /\ [][NextAuth]_vars

SpecUpgrade == Init /\ [][NextUpgrade]_vars

SpecAccount == Init /\ [][NextAccount]_vars

SpecFills == Init /\ [][NextFills]_vars

SpecBatch == Init /\ [][NextBatch]_vars

(***************************************************************************)
(* Claims about the order book (checked under SpecBook)                    *)
(***************************************************************************)

Sides == {"Buy", "Sell"}
Occupied(lvl) == lvl.price # 0
Present(b, side, p) == \E i \in Slots : SideLevels(b, side)[i].price = p
CountOf(b, side, p) == Cardinality({i \in Slots : SideLevels(b, side)[i].price = p})
NoGap(levels) == \A i, j \in Slots : i < j /\ Occupied(levels[j]) => Occupied(levels[i])
NLevels(levels) == Cardinality({i \in Slots : Occupied(levels[i])})

RemovedFrom(before, after, p) ==
    \E k \in Slots :
        /\ before[k].price = p
        /\ \A j \in Slots :
              after[j] = IF j < k THEN before[j]
                         ELSE IF j < Depth - 1 THEN before[j + 1] ELSE EmptyLevel

\* What update(side, p, q), q > 0, then update(side, p, 0) do to a book b
\* that does not hold p, as the claim has it.
InsertThenRemove(b, side, p, q) ==
    LET b1 == update(b, side, p, q)
        b2 == update(b1, side, p, 0)
    IN  /\ CountOf(b1, side, p) = 1
        /\ RemovedFrom(SideLevels(b1, side), SideLevels(b2, side), p)
        /\ NoGap(SideLevels(b2, side))
        /\ SideLevels(b2, IF side = "Buy" THEN "Sell" ELSE "Buy")
             = SideLevels(b, IF side = "Buy" THEN "Sell" ELSE "Buy")

\* The side is full and p is worse than each of its levels.
WorseThanFull(b, side, p) ==
    \A i \in Slots :
        /\ Occupied(SideLevels(b, side)[i])
        /\ IF side = "Buy" THEN p < SideLevels(b, side)[i].price
                           ELSE p > SideLevels(b, side)[i].price

C3_QtyPositive ==
    \A side \in Sides : \A i \in Slots :
        Occupied(SideLevels(book, side)[i]) => SideLevels(book, side)[i].qty > 0

(***************************************************************************)
(* Claims about the framer (checked under SpecFrame)                       *)
(***************************************************************************)

Bit(x, k) == (x \div (2 ^ k)) % 2
\* c is a XOR b, bit by bit.
IsXor(a, b, c) == \A k \in 0 .. 7 : Bit(c, k) = (Bit(a, k) + Bit(b, k)) % 2

Encoded == enc # NotEncoded
Decoded == dec # NotDecoded

\* C4: for a payload of length L < 126 encode_text_frame returns L + 6 and
\* writes 0x81, 0x80 | L, the mask key 01 02 03 04, then payload[i] XOR
\* key[i mod 4]; b"ping" gives 81 84 01 02 03 04 71 6b 6d 63; for L >= 126 it
\* returns 0.
C4_EncodeTextFrame ==
    Encoded =>
        LET L == Len(enc.src)
        IN  /\ L < 126 =>
                /\ enc.n = L + 6
                /\ Len(enc.dst) = L + 6
                /\ At(enc.dst, 0) = 129
                /\ At(enc.dst, 1) = 128 + L
                /\ SubSeq(enc.dst, 3, 6) = <<1, 2, 3, 4>>
                /\ \A i \in 0 .. (L - 1) :
                      IsXor(At(enc.src, i), At(enc.dst, 2 + (i % 4)), At(enc.dst, 6 + i))
            /\ L >= 126 => enc.n = 0
            /\ enc.src = Ping => enc.dst = <<129, 132, 1, 2, 3, 4, 113, 107, 109, 99>>

C4_Witness == enc.src = Ping /\ enc.n = 10 /\ Len(wire) = 10

\* A payload read off a frame and un-masked with the frame's key.
Unmask(payload, key) ==
    [k \in 1 .. Len(payload) |-> Xor(payload[k], At(key, (k - 1) % 4))]

\* The state after encode_text_frame(X), |X| <= 125, and decode_frame on
\* its output.
RoundTripped == Encoded /\ Decoded /\ Len(enc.src) <= 125

\* C5 as stated: decode_frame on the encoder's output yields a frame whose
\* payload, un-masked with the frame's mask key, is X.
C5_RoundTrip ==
    RoundTripped =>
        /\ dec.tag = "Some"
        /\ Unmask(dec.payload, SubSeq(wire, 3, 6)) = enc.src

\* C5 (amended): decode_frame rejects the encoder's output as a masked
\* frame; the output is |X| + 6 bytes, and its bytes from offset 6, un-masked
\* with the key at offsets 2..5, are X.
C5_EncodedFrameRejected ==
    RoundTripped =>
        /\ dec = DecErr
        /\ Len(wire) = Len(enc.src) + 6
        /\ Unmask(SubSeq(wire, 7, Len(wire)), SubSeq(wire, 3, 6)) = enc.src

C5_Witness == RoundTripped /\ enc.src = Ping /\ dec.tag = "Err"

\* The length forms, read off an unmasked buffer as RFC 6455 lays them out.
HeaderLen(buf) ==
    IF At(buf, 1) % 128 = 126 THEN 4 ELSE IF At(buf, 1) % 128 = 127 THEN 10 ELSE 2
HeaderShort(buf) == Len(buf) < 2 \/ Len(buf) < HeaderLen(buf)
PayloadLen(buf) ==
    IF HeaderLen(buf) = 4 THEN U64Of(At(buf, 2) * 256 + At(buf, 3))
    ELSE IF HeaderLen(buf) = 10 THEN U64FromBe(SubSeq(buf, 3, 10))
    ELSE U64Of(At(buf, 1) % 128)
\* The buffer holds fewer bytes than the full frame.
FrameShort(buf) ==
    HeaderShort(buf) \/ U64Above(PayloadLen(buf), Len(buf) - HeaderLen(buf))
Unmasked(buf) == Len(buf) < 2 \/ At(buf, 1) < 128

\* C6: on an unmasked buffer decode_frame returns None exactly when the
\* buffer is shorter than the full frame, and otherwise Some((consumed,
\* payload)) with consumed = header + payload length <= buffer length and
\* payload = buffer[header .. consumed).
C6_DecodeUnmasked ==
    Decoded /\ Unmasked(wire) =>
        /\ dec.tag = "None" <=> FrameShort(wire)
        /\ ~FrameShort(wire) =>
              /\ dec.tag = "Some"
              /\ dec.consumed = HeaderLen(wire) + PayloadLen(wire).c
              /\ dec.consumed <= Len(wire)
              /\ dec.payload = SubSeq(wire, HeaderLen(wire) + 1, dec.consumed)

(***************************************************************************)
(* Claims about the strategy (checked under SpecStrat)                     *)
(***************************************************************************)

\* The last call was on_tick: call.pre is the strategy before it, mm the
\* strategy after it, call.ret what it returned.
Ticked == call.op = "on_tick"

\* What a second on_tick call, made now on book b with the same exch_ts as
\* the call just made, returns and leaves.
SecondTick(b) == on_tick(mm, b, call.exch_ts, now)

\* C7 as stated: of two successive on_tick calls carrying the same exch_ts,
\* the second returns None.
C7_SameTsReturnsNone ==
    Ticked => \A b \in TickBooks : SecondTick(b).ret = None

\* C7 (amended): of two successive on_tick calls carrying the same
\* exch_ts > 0, the second returns None, emits no action and changes nothing
\* but the tick counter.
C7_SamePositiveTsReturnsNone ==
    Ticked /\ call.exch_ts > 0 =>
        \A b \in TickBooks :
            /\ SecondTick(b).ret = None
            /\ SecondTick(b).self = [mm EXCEPT !.tick_counter = @ + 1]

\* A second call with a positive exch_ts has been made and skipped, in a
\* state where a call without timestamp acts.
C7_Witness ==
    /\ Ticked
    /\ call.exch_ts > 0
    /\ call.exch_ts = call.pre.last_exch_ts
    /\ call.pre.tick_counter > 0
    /\ call.ret = None
    /\ on_tick(call.pre, call.book, 0, call.at).ret # None

\* What a copy of the strategy in the state call.pre returns for the same
\* book and exch_ts when its call is made at time t2.
Twin(t2) == on_tick(call.pre, call.book, call.exch_ts, t2).ret

\* Calls at t1 and t2 fall on the same side of the 3 s time limit and of the
\* 30 s heartbeat, and give the same tps spread.
ClockTestsAgree(self, t1, t2) ==
    /\ self.last_trade_ts # NoInstant =>
          ((t1 - self.last_trade_ts[1] > 3000) <=> (t2 - self.last_trade_ts[1] > 3000))
    /\ (t1 - self.last_update_ts > 30000) <=> (t2 - self.last_update_ts > 30000)
    /\ LET s1 == TpsSpread(NextEma(self.tick_interval_ema, t1 - self.last_tick_arrival_ts))
           s2 == TpsSpread(NextEma(self.tick_interval_ema, t2 - self.last_tick_arrival_ts))
       IN  ~FracLess(s1, s2) /\ ~FracLess(s2, s1)

\* C8 as stated: two copies in the same state, given the same book and
\* exch_ts, return the same actions whatever the times of the two calls.
C8_SameActionsAtAnyTime ==
    Ticked => \A t2 \in Instants : t2 >= call.at => Twin(t2) = call.ret

\* C8 (amended): they return the same actions when the two call times agree
\* on the 3 s time limit since last_trade_ts, on the 30 s heartbeat since
\* last_update_ts and on the tps spread.
C8_SameActionsWhenClockTestsAgree ==
    Ticked =>
        \A t2 \in Instants :
            t2 >= call.at /\ ClockTestsAgree(call.pre, call.at, t2) =>
                Twin(t2) = call.ret

C8_Witness ==
    /\ Ticked
    /\ call.ret # None
    /\ \E t2 \in Instants :
          t2 > call.at /\ ClockTestsAgree(call.pre, call.at, t2) /\ Twin(t2) = call.ret

\* The call just made was on a held position and was not a batch duplicate.
TickedHolding ==
    /\ Ticked
    /\ QtyAboveEps(call.pre.position)
    /\ ~(call.exch_ts > 0 /\ call.exch_ts = call.pre.last_exch_ts)

\* [CancelAll, ClosePosition{|position|, Sell if long else Buy}]
ExpectedClose(self) ==
    << [action_type |-> "CancelAll"],
       [action_type |-> "ClosePosition", qty |-> Abs(self.position),
        side |-> IF self.position > 0 THEN "Sell" ELSE "Buy"] >>

\* C9: when on_tick closes a position it returns exactly [CancelAll,
\* ClosePosition{|position|, opposite side}] and leaves both active flags
\* false; position +0.2 @ 100.000 with bid 100.35 / ask 100.40 returns
\* [CancelAll, ClosePosition{0.2, Sell}].
C9_ClosePair ==
    TickedHolding =>
        /\ call.ret # None =>
              /\ call.ret = ExpectedClose(call.pre)
              /\ ~mm.has_active_buy
              /\ ~mm.has_active_sell
        /\ ( /\ call.pre.position = 2
             /\ call.pre.entry_price = Px(100000)
             /\ call.book = TopOfBook(100350, 100400) ) =>
                call.ret = << [action_type |-> "CancelAll"],
                              [action_type |-> "ClosePosition", qty |-> 2, side |-> "Sell"] >>

C9_Witness ==
    /\ TickedHolding
    /\ call.pre.position = 2
    /\ call.pre.entry_price = Px(100000)
    /\ call.pre.has_active_buy
    /\ call.pre.has_active_sell
    /\ call.book = TopOfBook(100350, 100400)
    /\ Len(call.ret) = 2
    /\ ~mm.has_active_buy
    /\ ~mm.has_active_sell

\* The unrealized return (long: (bid - entry) / entry, short: (entry - ask) /
\* entry) exceeds +0.3%, resp. is <= 0, for entry > 0.
ReturnNum(self, b) ==
    IF self.position > 0 THEN b.bids[0].price - self.entry_price
    ELSE self.entry_price - b.asks[0].price
ReturnAboveTakeProfit(self, b) == 1000 * ReturnNum(self, b) > 3 * self.entry_price
ReturnNotPositive(self, b) == ReturnNum(self, b) <= 0
TimeLimitPassed(self, t) ==
    self.last_trade_ts # NoInstant /\ t - self.last_trade_ts[1] > 3000

TickedQuoting ==
    /\ Ticked
    /\ ~QtyAboveEps(call.pre.position)
    /\ ~(call.exch_ts > 0 /\ call.exch_ts = call.pre.last_exch_ts)

\* The mid of book b, and whether it is more than 0.4% away from
\* last_update_mid (never, while last_update_mid is 0).
MidOf(b) == (b.bids[0].price + b.asks[0].price) \div 2
MidMoved(self, b) ==
    /\ self.last_update_mid > 0
    /\ 1000 * Abs(MidOf(b) - self.last_update_mid) > 4 * self.last_update_mid
HeartbeatDue(self, t) == t - self.last_update_ts > 30000

Quotes(ret) ==
    {i \in 1 .. Len(ret) : ret[i].action_type \in {"CreateOrder", "AmendOrder"}}

\* C11: in the quoting branch on_tick emits CreateOrder / AmendOrder only if
\* the mid has moved by more than 0.4% from last_update_mid or more than 30 s
\* have passed since last_update_ts; on every other tick it returns None and
\* leaves the active flags, the active prices, last_update_ts and
\* last_update_mid as they were; with last_update_mid = 0 only the heartbeat
\* produces quotes.
C11_RequoteGate ==
    TickedQuoting =>
        LET moved == MidMoved(call.pre, call.book)
            due == HeartbeatDue(call.pre, call.at)
        IN  /\ Quotes(call.ret) # {} => moved \/ due
            /\ ~(moved \/ due) =>
                  /\ call.ret = None
                  /\ mm.has_active_buy = call.pre.has_active_buy
                  /\ mm.has_active_sell = call.pre.has_active_sell
                  /\ mm.active_buy_price = call.pre.active_buy_price
                  /\ mm.active_sell_price = call.pre.active_sell_price
                  /\ mm.last_update_ts = call.pre.last_update_ts
                  /\ mm.last_update_mid = call.pre.last_update_mid
            /\ call.pre.last_update_mid = 0 /\ Quotes(call.ret) # {} => due

\* Quotes standing since a heartbeat are amended on a move of the mid alone.
C11_Witness ==
    /\ TickedQuoting
    /\ call.pre.has_active_buy
    /\ call.pre.has_active_sell
    /\ MidMoved(call.pre, call.book)
    /\ ~HeartbeatDue(call.pre, call.at)
    /\ Quotes(call.ret) # {}
    /\ call.ret[1].action_type = "AmendOrder"

\* C14: in every reachable strategy state, |position| < 0.0001 implies
\* entry_price = 0 and last_trade_ts = None.
C14_FlatHasNoEntryNoTimer ==
    QtyBelowEps(mm.position) =>
        /\ mm.entry_price = 0
        /\ mm.last_trade_ts = NoInstant

(***************************************************************************)
(* Claims about quoting (checked under SpecQuote)                          *)
(***************************************************************************)

\* The requote-on-shock example: last_update_mid = 100.0, book bid 100.6 /
\* ask 100.7 (a move of 0.65%, so the shock spread is clamped to 0.012 and
\* is the final spread), no inventory, no active orders.
TickedShock ==
    /\ Ticked
    /\ call.pre.last_update_mid = Px(100000)
    /\ call.book = ShockBook
    /\ call.pre.position = 0
    /\ ~call.pre.has_active_buy
    /\ ~call.pre.has_active_sell

\* ret is [CreateOrder{Buy, buy_price, 0.2}, CreateOrder{Sell, sell_price, 0.2}]
CreatesPair(ret, buy_price, sell_price) ==
    /\ Len(ret) = 2
    /\ ret[1].action_type = "CreateOrder" /\ ret[1].side = "Buy"
    /\ ret[1].price = buy_price /\ ret[1].qty = 2
    /\ ret[2].action_type = "CreateOrder" /\ ret[2].side = "Sell"
    /\ ret[2].price = sell_price /\ ret[2].qty = 2

\* One cent, and the distance of price p from bid * 0.988, resp. from
\* ask * 1.012, in thousandths of a price unit.
Cent == Px(10)
OffBuyTarget(p, bid) == Abs(1000 * p - 988 * bid)
OffSellTarget(p, ask) == Abs(1000 * p - 1012 * ask)

C13_ActivePricePositive ==
    /\ mm.has_active_buy => mm.active_buy_price > 0
    /\ mm.has_active_sell => mm.active_sell_price > 0

(***************************************************************************)
(* Claims about the log ring (checked under SpecRing)                      *)
(***************************************************************************)

\* C17: the ring never holds more than 4096 records whatever the order of
\* hot-thread pushes and cold-thread pops; a push made when 4096 records are
\* unread fails and the record is dropped (the ring keeps its 4096), any
\* other push stores the record; after either the hot thread is back in its
\* loop, neither blocked in the push nor retrying it.
C17_RingBounded ==
    /\ ring \in 0 .. 4096
    /\ pushed # NotPushed =>
          /\ pushed.ret = "Full" <=> pushed.full
          /\ pushed.ret = "Full" <=> pushed.kept
          /\ hot_pc = "handle"
    /\ hot_pc = "push" => ENABLED HotPush

\* A push has just failed on the full ring.
C17_Witness ==
    /\ ring = 4096
    /\ pushed.ret = "Full"
    /\ pushed.full
    /\ pushed.kept
    /\ hot_pc = "handle"

(***************************************************************************)
(* Claims about the sessions (checked under SpecSession)                   *)
(***************************************************************************)

\* The order requests built for the order-entry session so far (a frame
\* is written for none that was not built).
OrdersOut == {i \in 1 .. Len(trade_out) : trade_out[i].op # "auth"}

\* r is an auth reply reporting success.
SuccessfulAuth(r) ==
    r.op = <<"auth">> /\ (r.success = <<TRUE>> \/ r.retCode = <<0>>)

\* C15: before the order-entry session has received a successful auth reply
\* on_tick has not been invoked and no order frame has been written to that
\* session (the flag trade_authenticated rises only on such a reply), while
\* a market-data message handled in that time is in the book.
C15_NoOrdersBeforeAuth ==
    /\ [](~trade_authenticated => mm.tick_counter = 0 /\ OrdersOut = {})
    /\ [](handled.on = "public" /\ handled.msg = QuoteMsg =>
              /\ Present(book, "Buy", Px(100000))
              /\ Present(book, "Sell", Px(100100)))
    /\ [][~trade_authenticated /\ trade_authenticated' =>
              /\ handled'.on = "trade"
              /\ SuccessfulAuth(handled'.reply)]_vars

\* The auth frame is out, no reply to it has come, the heartbeat is due, and
\* the market-data message just handled is in the book without a tick.
C15_Witness ==
    /\ ~trade_authenticated
    /\ trade_state = "Active"
    /\ Len(trade_out) = 1
    /\ now = 30001
    /\ handled.on = "public"
    /\ handled.msg = QuoteMsg
    /\ book.bids[0].price = Px(100000)
    /\ book.asks[0].price = Px(100100)
    /\ mm.tick_counter = 0

\* The place of a phase on a session's path: Subscribing and Authenticating
\* are the third phase of the public and of the private sessions.
Rank(phase) ==
    IF phase = "HandshakeSending" THEN 0
    ELSE IF phase = "HandshakeWaiting" THEN 1
    ELSE IF phase \in {"Subscribing", "Authenticating"} THEN 2
    ELSE 3

Forward(phase, next) == Rank(next) \in {Rank(phase), Rank(phase) + 1}

\* C16: each session's phase only moves forward along HandshakeSending ->
\* HandshakeWaiting -> (Subscribing for the public feed | Authenticating for
\* the private feeds) -> Active; the public session is never Authenticating,
\* a private session never Subscribing; an authenticated flag that is true
\* stays true.
C16_PhasesForward ==
    /\ [](/\ state \in {"HandshakeSending", "HandshakeWaiting", "Subscribing", "Active"}
          /\ priv_state \in {"HandshakeSending", "HandshakeWaiting", "Authenticating", "Active"}
          /\ trade_state \in {"HandshakeSending", "HandshakeWaiting", "Authenticating", "Active"})
    /\ [][/\ Forward(state, state')
          /\ Forward(priv_state, priv_state')
          /\ Forward(trade_state, trade_state')
          /\ priv_authenticated => priv_authenticated'
          /\ trade_authenticated => trade_authenticated']_vars

\* All sessions are Active and authenticated, and the reply just handled on
\* the order-entry session is a failed auth.
C16_Witness ==
    /\ state = "Active"
    /\ priv_state = "Active"
    /\ trade_state = "Active"
    /\ priv_authenticated
    /\ trade_authenticated
    /\ handled.on = "trade"
    /\ handled.reply = AuthFailed

(***************************************************************************)
(* Claims about the time sync (checked under SpecSync)                     *)
(***************************************************************************)

\* The reply just handled came on the order-entry session.
TradeHandled == handled.on = "trade"

\* C18: the first order-entry reply carrying header.Timenow sets offset_ms =
\* server_ms - local_ms - 500 and initialized = true; after that the offset
\* is replaced (again by server - local - 500) only on a reply whose
\* measured server-minus-local difference is more than 1000 ms away from the
\* difference the current offset was derived from, and every other reply
\* leaves it unchanged.
C18_ResyncOnDriftOver1s ==
    TradeHandled =>
        IF handled.reply.timenow = NoField
        THEN /\ time_offset = handled.time_offset
             /\ offset_initialized = handled.offset_initialized
        ELSE LET measured == handled.reply.timenow[1] - handled.at
                 derived_from == handled.time_offset + 500
             IN  /\ offset_initialized
                 /\ time_offset =
                       IF ~handled.offset_initialized THEN measured - 500
                       ELSE IF Abs(measured - derived_from) > 1000 THEN measured - 500
                       ELSE handled.time_offset

(***************************************************************************)
(* Claims about the venue's error replies (checked under SpecErrors)       *)
(***************************************************************************)

\* The requests for a resting order of `side` (create or amend) that the
\* reply just handled answers.
AnsweredOrders(side) ==
    {f \in Requests : /\ handled.reply.reqId = Field(f.reqId)
                      /\ f.action.action_type \in {"CreateOrder", "AmendOrder"}
                      /\ f.action.side = side}

\* What reset_order(side) at the time of the reply leaves behind.
SideReset(side) ==
    IF side = "Buy"
    THEN /\ ~mm.has_active_buy
         /\ mm.active_buy_price = 0
         /\ mm.active_buy_link_id = LinkId("b", handled.at)
    ELSE /\ ~mm.has_active_sell
         /\ mm.active_sell_price = 0
         /\ mm.active_sell_link_id = LinkId("s", handled.at)

\* The reply just handled left the order state of `side` as it was.
SideKept(side) ==
    IF side = "Buy"
    THEN /\ mm.has_active_buy = handled.pre.has_active_buy
         /\ mm.active_buy_price = handled.pre.active_buy_price
         /\ mm.active_buy_link_id = handled.pre.active_buy_link_id
    ELSE /\ mm.has_active_sell = handled.pre.has_active_sell
         /\ mm.active_sell_price = handled.pre.active_sell_price
         /\ mm.active_sell_link_id = handled.pre.active_sell_link_id

Other(side) == IF side = "Buy" THEN "Sell" ELSE "Buy"

ReplyHandled == handled.on \in {"private", "trade"}

\* C20: a reply with retCode 10001 or 10404 on either private session
\* results in exactly a reset of the relevant side: reset_order is applied to
\* the side derived from the reply's reqId (the other side is left as it
\* was), and position and entry_price are not modified.
C20_ParamsErrorResetsSide ==
    (ReplyHandled /\ handled.reply.retCode \in {Field(10001), Field(10404)}) =>
        \A side \in {"Buy", "Sell"} :
            AnsweredOrders(side) # {} =>
                /\ SideReset(side)
                /\ SideKept(Other(side))
                /\ mm.position = handled.pre.position
                /\ mm.entry_price = handled.pre.entry_price

(***************************************************************************)
(* Claims about link ids (checked under SpecQuote)                         *)
(***************************************************************************)

\* The link id of a side in a strategy state.
LinkIdOf(self, side) ==
    IF side = "Buy" THEN self.active_buy_link_id ELSE self.active_sell_link_id

\* C21: every reset_order(side) call replaces the side's link id with a fresh
\* one: the id after the call begins with "b-" (Buy) or "s-" (Sell) and
\* differs from the side's id before the call and from every id the side held
\* earlier (the id before the call is the latest of them, and the one the
\* formula compares with), also when the resets fall in one millisecond.
C21_ResetGivesFreshLinkId ==
    call.op = "reset_order" =>
        /\ StartsWith(TextOf(LinkIdOf(mm, call.side)),
                      IF call.side = "Buy" THEN <<"b", "-">> ELSE <<"s", "-">>)
        /\ LinkIdOf(mm, call.side) # LinkIdOf(call.pre, call.side)

(***************************************************************************)
(* Claims about the receive buffer (checked under SpecRecv)                *)
(***************************************************************************)

\* The bytes of a sequence of frames, and the payloads a handler can be
\* given (those that are not empty), in order.
RECURSIVE BytesOf(_)
BytesOf(frames) ==
    IF frames = <<>> THEN <<>> ELSE Head(frames) \o BytesOf(Tail(frames))
RECURSIVE PayloadsOf(_)
PayloadsOf(frames) ==
    IF frames = <<>> THEN <<>>
    ELSE LET payload == SubSeq(Head(frames), 3, Len(Head(frames)))
         IN  (IF payload # <<>> THEN <<payload>> ELSE <<>>) \o PayloadsOf(Tail(frames))

\* The venue has sent well-formed unmasked frames only, and every read was
\* made by the Active session.
CleanStream ==
    /\ \A i \in 1 .. Len(framed) : framed[i] \in WellFormed
    /\ skipped = <<>>

\* C22: for an Active session receiving well-formed unmasked frames, each no
\* larger than the buffer, split arbitrarily across reads: every frame's
\* payload is delivered to the handler exactly once and in stream order;
\* after each read the complete frames at the front are consumed and the
\* unconsumed tail is at offset 0 with inbound_len its length; no byte is
\* lost, duplicated or reordered.
C22_FramesDeliveredInOrder ==
    CleanStream =>
        \E k \in 0 .. Len(framed) :
            /\ delivered = PayloadsOf(SubSeq(framed, 1, k))
            /\ inbound_buf \o net = BytesOf(SubSeq(framed, k + 1, Len(framed)))
            /\ decode_frame(inbound_buf) = DecNone
            /\ Len(inbound_buf) < InboundCap
            /\ net = <<>> => k = Len(framed)

\* Two frames were delivered, the second as long as the buffer, and the
\* first byte of a third frame waits at the front of the buffer.
C22_Witness ==
    /\ CleanStream
    /\ framed = <<TextA, TextFull, TextA>>
    /\ delivered = PayloadsOf(<<TextA, TextFull>>)
    /\ inbound_buf = <<129>>

\* The well-formed frames among those sent, in order.
WellFormedSent == SelectSeq(framed, LAMBDA frame : frame \in WellFormed)

\* C25: after decode_frame reports a protocol violation (a masked server
\* frame), the offending frame is dropped from the receive buffer and
\* decoding is re-driven, so that the well-formed frames arriving after it
\* are still decoded and delivered: no read leaves the offending frame at the
\* front of the buffer, and once every byte is read the payloads of all
\* well-formed frames have been delivered.
C25_ViolationDroppedAndRedriven ==
    skipped = <<>> =>
        /\ decode_frame(inbound_buf) # DecErr
        /\ net = <<>> => delivered = PayloadsOf(WellFormedSent)

\* C30: bytes read while the session is in Subscribing (public feed) or
\* Authenticating (private feeds) are run through the frame decoder and
\* their payloads handed to the session's handler; no bytes received in
\* those phases are discarded.
C30_NoBytesDiscardedBeforeActive ==
    /\ skipped = <<>>
    /\ (net = <<>> /\ \A i \in 1 .. Len(framed) : framed[i] \in WellFormed)
           => delivered = PayloadsOf(framed)

(***************************************************************************)
(* Claims about what is written to the sessions                            *)
(***************************************************************************)

\* The order requests built from the actions of on_tick, and the order
\* frames in the outbound buffer of the order-entry session, in order.
OrdersBuilt == SelectSeq(trade_out, LAMBDA json : json.op # "auth")
OrdersQueued == SelectSeq(tx["trade"], LAMBDA frame : frame.json.op # "auth")

\* C23: every action returned by on_tick is, in the same loop iteration,
\* encoded into a non-empty WebSocket frame and enqueued with write_plaintext
\* into the order-entry session's outbound buffer (followed by write_tls);
\* no emitted action is dropped between the strategy and the session,
\* whatever the length of its serialized JSON.
C23_EveryActionEnqueued ==
    /\ Len(OrdersQueued) = Len(OrdersBuilt)
    /\ \A i \in 1 .. Len(OrdersQueued) :
           /\ OrdersQueued[i].json = OrdersBuilt[i]
           /\ OrdersQueued[i].frame_len > 0

\* ConnectionState of a private session.
PhaseOf(session) == IF session = "private" THEN priv_state ELSE trade_state

\* The auth frames in a session's outbound buffer.
AuthQueued(session) ==
    {i \in 1 .. Len(tx[session]) : tx[session][i].json.op = "auth"}

\* C24: whenever a private session (account stream or order-entry) has moved
\* from Authenticating to Active on a writable event, a non-empty WebSocket
\* text frame carrying {"op":"auth","args":[key, expires_ms, 64-char hex
\* signature]} has been enqueued on that session, for every API key length.
C24_AuthFrameEnqueued ==
    \A session \in {"private", "trade"} :
        PhaseOf(session) = "Active" =>
            \E i \in AuthQueued(session) :
                /\ tx[session][i].frame_len > 0
                /\ tx[session][i].payload_len = AuthMsgLen(api_key[1])

\* C29: every timestamp the engine sends to the venue uses the time-sync
\* correction: each WebSocket auth frame's expires equals local_now +
\* offset_ms + 5000 (and each order header's X-BAPI-TIMESTAMP local_now +
\* offset_ms); raw local time is never sent.
C29_TimestampsCorrected ==
    \A session \in {"private", "trade"} :
        \A i \in AuthQueued(session) :
            LET auth == tx[session][i].json
            IN  auth.expires = auth.at + auth.time_offset + 5000

(***************************************************************************)
(* Claims about quoting                                                    *)
(***************************************************************************)

\* C26: in every reachable state with |position| > epsilon, on_tick returns
\* no CreateOrder and no AmendOrder: while inventory is held the only
\* non-empty result is the close pair [CancelAll, ClosePosition].
C26_NoQuotesWhileHolding ==
    Ticked /\ QtyAboveEps(call.pre.position) =>
        /\ Quotes(call.ret) = {}
        /\ call.ret # None => call.ret = ExpectedClose(call.pre)

\* A position held without closing on a tick that would have requoted: the
\* heartbeat is due and the exch_ts is new.
C26_Witness ==
    /\ TickedHolding
    /\ HeartbeatDue(call.pre, call.at)
    /\ call.book.bids[0].price > 0
    /\ call.book.asks[0].price > 0
    /\ call.ret = None

\* The call just made was a requoting tick: it reached the per-side code of
\* the quoting branch (two-sided book, and the mid moved or the heartbeat
\* due).
TickedRequoting ==
    /\ TickedQuoting
    /\ call.book.bids[0].price > 0
    /\ call.book.asks[0].price > 0
    /\ MidMoved(call.pre, call.book) \/ HeartbeatDue(call.pre, call.at)

\* The target prices of a tick on book b at time t.
TargetsOf(self, b, t) ==
    LET ema == NextEma(self.tick_interval_ema, t - self.last_tick_arrival_ts)
        final_spread == FracMax(TpsSpread(ema), ShockSpread(ChangePct(self, MidOf(b))))
    IN  [Buy |-> WallBuyTarget(b, RoundedBelow(b.bids[0].price, final_spread), MidOf(b)),
         Sell |-> WallSellTarget(b, RoundedAbove(b.asks[0].price, final_spread), MidOf(b))]

\* The order state of one side of a strategy.
SideOf(self, side) ==
    IF side = "Buy"
    THEN [active |-> self.has_active_buy, price |-> self.active_buy_price,
          link_id |-> self.active_buy_link_id]
    ELSE [active |-> self.has_active_sell, price |-> self.active_sell_price,
          link_id |-> self.active_sell_link_id]

\* |d| >= 0.0001 for a price difference d (units of 0.0005).
PriceDiffAtLeastEps(d) == Abs(d) * 5 >= 1

\* What the last call emitted for a side.
EmittedFor(side) == SelectSeq(call.ret, LAMBDA a : a.side = side)

RequestsFor(variants) == {f \in Requests : f.action.action_type \in variants}

\* C28 as stated: for every action variant on_tick can emit for a side
\* (CreateOrder, AmendOrder, ClosePosition), the reqId built for it resolves
\* through side_to_reset to that action's own side, and never to the opposite
\* side.
C28_ReqIdResolvesToOwnSide ==
    \A f \in RequestsFor({"CreateOrder", "AmendOrder", "ClosePosition"}) :
        side_to_reset(f.reqId) = Field(f.action.side)

\* C28, amended: the reqId of every CreateOrder and AmendOrder resolves to
\* the action's own side; the reqId of a ClosePosition ("close-Buy-..",
\* "close-Sell-..") resolves to no side; none resolves to the opposite side.
C28_QuoteReqIdResolvesToOwnSide ==
    /\ \A f \in RequestsFor({"CreateOrder", "AmendOrder"}) :
           side_to_reset(f.reqId) = Field(f.action.side)
    /\ \A f \in RequestsFor({"ClosePosition"}) :
           side_to_reset(f.reqId) = NoField

\* Requests for quotes of both sides and for a ClosePosition have been
\* built.
C28_Witness ==
    /\ \E f \in RequestsFor({"CreateOrder"}) : f.action.side = "Buy"
    /\ \E f \in RequestsFor({"CreateOrder"}) : f.action.side = "Sell"
    /\ \E f \in RequestsFor({"ClosePosition"}) : side_to_reset(f.reqId) = NoField

(***************************************************************************)
(* Claims about the handshake reply and the inbound buffer                 *)
(***************************************************************************)

\* A step that reads in HandshakeWaiting, the number of bytes it read, and
\* the bytes accumulated with it.
UpgradeReadStep == state = "HandshakeWaiting" /\ Len(net') < Len(net)
BytesRead == Len(net) - Len(net')
Accumulated == inbound_buf \o SubSeq(net, 1, BytesRead)

\* C31: in HandshakeWaiting the session advances (public -> Subscribing) with
\* inbound_len reset to 0 if and only if the bytes accumulated so far contain
\* "101 Switching Protocols"; on every read that does not complete the
\* marker the bytes read are retained (inbound_len grows by the number of
\* bytes read) and the phase is unchanged.
C31_UpgradeIffMarker ==
    [][UpgradeReadStep =>
          IF Contains(Accumulated, Marker)
          THEN state' = "Subscribing" /\ inbound_buf' = <<>>
          ELSE /\ state' = state
               /\ Len(inbound_buf') = Len(inbound_buf) + BytesRead]_vars

\* A step that reads from the connection.
ReadStep == Len(net') < Len(net)

\* C32: inbound_len never exceeds the buffer capacity and every read targets
\* a range inside the buffer; when inbound_len has reached capacity without
\* a complete frame, the next readable event resets inbound_len to 0 before
\* reading: the bytes kept after it are bytes of that read.
C32_InboundWithinCapacity ==
    [][/\ Len(inbound_buf') <= InboundCap
       /\ ReadStep =>
             /\ Len(inbound_buf) < InboundCap =>
                   Len(inbound_buf) + BytesRead <= InboundCap
             /\ Len(inbound_buf) >= InboundCap =>
                   /\ BytesRead <= InboundCap
                   /\ Len(inbound_buf') <= BytesRead
                   /\ inbound_buf' = SubSeq(net, BytesRead - Len(inbound_buf') + 1,
                                            BytesRead)]_vars

\* The buffer is full of the bytes of a frame that cannot be decoded, and
\* more bytes wait to be read.
C32_Witness ==
    /\ state = "Active"
    /\ Len(inbound_buf) = InboundCap
    /\ decode_frame(inbound_buf).tag # "Some"
    /\ net # <<>>

(***************************************************************************)
(* Claims about the account session                                        *)
(***************************************************************************)

\* The subscriptions enqueued on the account session.
Subscriptions(queues) ==
    Len(SelectSeq(queues["private"], LAMBDA frame : frame.json.op = "subscribe"))

\* C33 as stated: on the account session the subscription to execution and
\* position is enqueued exactly once for each successful auth reply, never
\* before authenticated has become true, and authenticated becomes true only
\* on an auth reply reporting success.
C33_SubscribedOncePerAuthReply ==
    /\ Subscriptions(tx) = auth_replies
    /\ Subscriptions(tx) > 0 => priv_authenticated
    /\ priv_authenticated => auth_replies > 0

\* C33, amended: the subscription is enqueued exactly once for each read of
\* the account session that carries one or more successful auth replies,
\* never before authenticated has become true, and authenticated becomes
\* true only on an auth reply reporting success.
C33_SubscribedOncePerRead ==
    [][/\ Subscriptions(tx') - Subscriptions(tx)
              = IF auth_replies' > auth_replies THEN 1 ELSE 0
       /\ Subscriptions(tx') > 0 => priv_authenticated'
       /\ priv_authenticated' => auth_replies' > 0]_vars

\* Two reads with successful auth replies have been handled, two
\* subscriptions are enqueued behind the auth frame.
C33_Witness ==
    /\ priv_authenticated
    /\ auth_replies >= 2
    /\ Subscriptions(tx) = 2
    /\ tx["private"][1].json.op = "auth"

(***************************************************************************)
(* Claims about fills                                                      *)
(***************************************************************************)

\* The reply just handled was a trade of the account stream; the fill it
\* reported.
Filled ==
    /\ handled # NotHandled
    /\ handled.on = "private"
    /\ handled.reply.topic = Field("execution")
TheFill == handled.reply.data[1]
SignedQty(fill) == IF fill.side = "Buy" THEN fill.execQty ELSE -fill.execQty

\* p is the quantity-weighted average of old entry and px, truncated to the
\* price unit.
IsWeightedAverage(p, pre, fill) ==
    LET total_val == (Abs(pre.position) * pre.entry_price) + (fill.execQty * fill.execPrice)
        new_qty == Abs(pre.position) + fill.execQty
    IN  p * new_qty <= total_val /\ total_val < (p + 1) * new_qty

\* C34: on_fill(side, qty, px) adds qty to position for a Buy and subtracts
\* it for a Sell; a fill that adds to a same-direction position makes
\* entry_price the quantity-weighted average of the old entry and px; a fill
\* that opens a position from flat makes it px; a resulting |position| <
\* epsilon makes it 0; and after any fill that leaves a position, entry_price
\* is the average price of the inventory held, also after a fill that
\* reverses the sign of the position (the inventory then is that of the fill
\* alone, at px).
C34_EntryIsAverageOfInventory ==
    Filled =>
        LET pre == handled.pre
            fill == TheFill
            same == pre.position * SignedQty(fill) > 0
            reversed == pre.position * mm.position < 0
        IN  /\ mm.position = pre.position + SignedQty(fill)
            /\ same => IsWeightedAverage(mm.entry_price, pre, fill)
            /\ pre.position = 0 => mm.entry_price = fill.execPrice
            /\ QtyBelowEps(mm.position) => mm.entry_price = 0
            /\ reversed => mm.entry_price = fill.execPrice
            /\ (~same /\ ~reversed /\ pre.position # 0 /\ mm.position # 0) =>
                   mm.entry_price = pre.entry_price

(***************************************************************************)
(* Claims about market-data reads                                          *)
(***************************************************************************)

\* The read just handled was a market-data read of several payloads; a step
\* that handles one.
BatchHandled ==
    /\ handled # NotHandled
    /\ handled.on = "public"
    /\ "msgs" \in DOMAIN handled
BatchStep == handled' # handled /\ BatchHandled'

\* The payloads of the read that parse.
Parsing(msgs) == SelectSeq(msgs, LAMBDA m : m.json)

\* C35: when the payload of a decoded market-data frame fails to parse, the
\* order book is left unchanged, on_tick is not invoked for that frame, the
\* loop still advances past the frame, and the remaining frames of the same
\* read are processed normally: the read leaves the book, the strategy and
\* the requests as the same read without the failing frames would.
C35_ParseFailureSkipsFrame ==
    [][BatchStep =>
          LET without == public_payloads(LoopState, Parsing(handled'.msgs),
                                         trade_authenticated, Sync, now)
          IN  /\ book' = without.book
              /\ mm' = without.mm
              /\ call' = without.call
              /\ trade_out' = without.trade_out
              /\ tx' = without.tx
              /\ Parsing(handled'.msgs) = <<>> =>
                    /\ book' = book
                    /\ mm' = mm
                    /\ call' = call]_vars

\* A read whose first frame fails to parse and whose second frame updates
\* the book and makes the strategy quote.
C35_Witness ==
    /\ BatchHandled
    /\ handled.msgs = <<BadMsg, QuoteMsg>>
    /\ book # handled.pre.book
    /\ call.op = "on_tick"
    /\ call.pre = handled.pre.mm
    /\ call.ret # None
    /\ parse_ret.ok

\* C36: after any sequence of update(side, price, qty) calls (upserts and
\* zero-quantity removals over more than 20 distinct prices), each side of
\* L2OrderBook equals the best 20 levels of an unbounded price -> qty map to
\* which the same updates were applied.
C36_BookIsBestOfFullDepth ==
    /\ book.bids = BestLevels(full, "Buy")
    /\ book.asks = BestLevels(full, "Sell")

(***************************************************************************)
(* Claims about the life of an order                                       *)
(***************************************************************************)

\* Positions in trade_out of the requests built for CreateOrder actions.
Creates ==
    {i \in 1 .. Len(trade_out) :
        /\ trade_out[i].op # "auth"
        /\ trade_out[i].action.action_type = "CreateOrder"}

\* C37: across any sequence of ticks, fills, cancels, closes and resets, no
\* two CreateOrder actions emitted by the strategy carry the same link id.
C37_CreateLinkIdsDistinct ==
    \A i, j \in Creates :
        i # j => trade_out[i].action.link_id # trade_out[j].action.link_id

\* The poller is fair: the loop never stops polling, so a session whose socket
\* is writable, or whose peer has answered the upgrade, gets its handler run.
\* When market data arrives and what the venue replies is not constrained.
FairPoller ==
    /\ WF_vars(PublicWritable)
    /\ WF_vars(PublicHandshakeRead(TRUE))
    /\ WF_vars(\E key \in FittingKeys : PrivateWritable(key))
    /\ WF_vars(PrivateHandshakeRead(TRUE))
    /\ WF_vars(\E key \in FittingKeys : TradeWritable(key))
    /\ WF_vars(TradeHandshakeRead(TRUE))

SpecRecovery == Init /\ [][NextTradeErrors]_vars /\ FairPoller

\* The reply just handled on the order-entry stream rejects a CreateOrder
\* request of the side: a non-zero retCode under that request's reqId.
RejectedCreate(side) ==
    /\ handled.on = "trade"
    /\ handled.reply.retCode # NoField
    /\ handled.reply.retCode # Field(0)
    /\ \E f \in RequestsFor({"CreateOrder"}) :
        /\ f.action.side = side
        /\ handled.reply.reqId = Field(f.reqId)

\* C38: if a CreateOrder emitted for a side is rejected by the venue (any
\* non-zero retCode for that request on the order-entry session), then the
\* side's has_active flag is eventually cleared.
C38_RejectedCreateRecovers ==
    \A side \in {"Buy", "Sell"} :
        RejectedCreate(side) ~> ~SideOf(mm, side).active

\* The step is a call of on_tick with an exchange timestamp that is not a
\* batch duplicate, made while a position is held.
FreshTickHolding ==
    /\ call' # call
    /\ call'.op = "on_tick"
    /\ ~IsBatchDuplicate(mm, call'.exch_ts)
    /\ QtyAboveEps(mm.position)

\* The time limit applies to the position held: the return is <= 0 and more
\* than 3 s have passed since last_trade_ts.
CloseDue(self, b, t) == ReturnNotPositive(self, b) /\ TimeLimitPassed(self, t)

\* A held position always has its timer running.
C39_HeldPositionHasTimer ==
    QtyAboveEps(mm.position) => mm.last_trade_ts # NoInstant

\* C39: a held position is never stuck at a loss: whenever a position is held
\* last_trade_ts is set; once 3 s have passed since last_trade_ts, each tick
\* with a fresh exchange timestamp that finds the return <= 0 emits
\* [CancelAll, ClosePosition], and this goes on, tick after tick, until
\* on_fill or sync_position brings the position to zero.
C39_CloseRetriedUntilFlat ==
    [][/\ C39_HeldPositionHasTimer'
       /\ FreshTickHolding /\ CloseDue(mm, call'.book, now)
             => call'.ret = ExpectedClose(mm)
       /\ QtyAboveEps(mm.position) /\ QtyAboveEps(mm'.position)
             /\ TimeLimitPassed(mm, now) => TimeLimitPassed(mm', now')]_vars

(***************************************************************************)
(* Session start-up under a fair poller                                    *)
(***************************************************************************)

\* `let bybit_interest = if ws_client.tls.wants_write() || state ==
\* HandshakeSending || state == Subscribing { READABLE | WRITABLE } else
\* { READABLE }`
bybit_interest(wants_write, st) ==
    IF wants_write \/ st = "HandshakeSending" \/ st = "Subscribing"
    THEN {"READABLE", "WRITABLE"} ELSE {"READABLE"}

\* BYBIT_TOKEN, writable: the poller reports the event only for a session
\* registered for WRITABLE at the end of the previous iteration.
PolledPublicWritable ==
    /\ \E wants_write \in BOOLEAN : "WRITABLE" \in bybit_interest(wants_write, state)
    /\ PublicWritable

\* BYBIT_TOKEN, readable: the session is always registered for READABLE.
PolledPublicUpgradeRead(n) ==
    /\ \A wants_write \in BOOLEAN : "READABLE" \in bybit_interest(wants_write, state)
    /\ PublicUpgradeRead(n)

\* What the peer sends at start-up: the answer to the Upgrade, and pong frames.
StartupBytes == {<<72>> \o Marker, Pong}

\* The market-data session from start-up on.
NextStartup ==
    \/ PolledPublicWritable
    \/ \E bytes \in StartupBytes : PeerAnswer(bytes)
    \/ \E n \in 1 .. InboundCap : PolledPublicUpgradeRead(n)

\* A fair poller: an event the session is registered for, and that is ready,
\* is handled.
FairStartup ==
    /\ WF_vars(PolledPublicWritable)
    /\ WF_vars(\E n \in 1 .. InboundCap : PolledPublicUpgradeRead(n))

SpecStartup == Init /\ [][NextStartup]_vars /\ FairStartup

\* C40: under a fair poller, once the peer has answered the Upgrade with
\* "101 Switching Protocols" the session eventually reaches Active.
C40_AnsweredSessionBecomesActive ==
    (state = "HandshakeWaiting" /\ Contains(net, Marker)) ~> state = "Active"

====
